---- MODULE Spec2Model ----
(***************************************************************************)
(* Order service of WB_L0: the Kafka ingestion pipeline with retry and     *)
(* dead-letter queue (server/kafka/consumer.go), the transactional         *)
(* PostgreSQL writer and reader and the Redis cache-aside layer with its   *)
(* "recently used" list (server/internal/storage/storage.go), and the      *)
(* order validator (server/models/models.go).                              *)
(*                                                                         *)
(* Strings are TLA+ strings (Len and SubSeq give length and characters).   *)
(* Go errors are records [type, field, msg]: type is the dynamic type the  *)
(* code's type assertions see, msg is what Error() returns.                *)
(***************************************************************************)
EXTENDS Integers, Sequences, FiniteSets, TLC

----------------------------------------------------------------------------
(* Errors                                                                  *)

nil == [type |-> "nil", field |-> "", msg |-> ""]

\* models.go:11-18  &ValidationError{Field, Message} and its Error() text
ValidationError(f, m) ==
    [type |-> "*models.ValidationError", field |-> f,
     msg |-> "validation error: " \o f \o " - " \o m]

\* fmt.Errorf("<prefix>: %w", e): a new error value of type *fmt.wrapError
Wrapf(prefix, e) ==
    [type |-> "*fmt.wrapError", field |-> e.field, msg |-> prefix \o ": " \o e.msg]

\* fmt.Errorf / errors.New / driver errors without a wrapped cause
Errorf(m) == [type |-> "*errors.errorString", field |-> "", msg |-> m]

----------------------------------------------------------------------------
(* Regular expressions of models.go:114-118                                *)

Char(s, i) == SubSeq(s, i, i)

AllIn(s, lo, hi, set) == \A p \in lo..hi : Char(s, p) \in set

Digits == {"0", "1", "2", "3", "4", "5", "6", "7", "8", "9"}

Upper == {"A", "B", "C", "D", "E", "F", "G", "H", "I", "J", "K", "L", "M",
          "N", "O", "P", "Q", "R", "S", "T", "U", "V", "W", "X", "Y", "Z"}

Lower == {"a", "b", "c", "d", "e", "f", "g", "h", "i", "j", "k", "l", "m",
          "n", "o", "p", "q", "r", "s", "t", "u", "v", "w", "x", "y", "z"}

UpperDigits == Upper \cup Digits

EmailLocal == Lower \cup Upper \cup Digits \cup {".", "_", "%", "+", "-"}

EmailDomain == Lower \cup Upper \cup Digits \cup {".", "-"}

Letters == Lower \cup Upper

\* ^[A-Z0-9]{8,20}$
trackNumRegex(s) ==
    /\ Len(s) >= 8
    /\ Len(s) <= 20
    /\ AllIn(s, 1, Len(s), UpperDigits)

\* ^\+\d{5,15}$
phoneRegex(s) ==
    /\ Len(s) >= 6
    /\ Len(s) <= 16
    /\ Char(s, 1) = "+"
    /\ AllIn(s, 2, Len(s), Digits)

\* ^[a-zA-Z0-9._%+-]+@[a-zA-Z0-9.-]+\.[a-zA-Z]{2,}$
emailRegex(s) ==
    \E i \in 2..Len(s) :
        /\ Char(s, i) = "@"
        /\ AllIn(s, 1, i - 1, EmailLocal)
        /\ \E j \in (i + 2)..(Len(s) - 2) :
               /\ Char(s, j) = "."
               /\ AllIn(s, i + 1, j - 1, EmailDomain)
               /\ AllIn(s, j + 1, Len(s), Letters)

----------------------------------------------------------------------------
(* Time.  A time.Time is [sec, nsec] counted from Go's zero time; the      *)
(* model's wall clock reads Now.                                           *)

ZeroTime == [sec |-> 0, nsec |-> 0]

Now == [sec |-> 100000, nsec |-> 0]

Hour == 3600

IsZero(t) == t.sec = 0 /\ t.nsec = 0

After(t, u) == t.sec > u.sec \/ (t.sec = u.sec /\ t.nsec > u.nsec)

AddSeconds(t, d) == [sec |-> t.sec + d, nsec |-> t.nsec]

----------------------------------------------------------------------------
(* Validator, models.go:120-311.  Each operator returns the error value    *)
(* the Go method returns (nil when the check passes).                      *)

DeliveryValidate(d) ==
    IF d.Name = "" THEN ValidationError("name", "is required")
    ELSE IF ~phoneRegex(d.Phone) THEN ValidationError("phone", "invalid format")
    ELSE IF Len(d.Zip) < 5 \/ Len(d.Zip) > 20
        THEN ValidationError("zip", "must be 5-20 characters")
    ELSE IF d.City = "" THEN ValidationError("city", "is required")
    ELSE IF d.Address = "" THEN ValidationError("address", "is required")
    ELSE IF d.Region = "" THEN ValidationError("region", "is required")
    ELSE IF ~emailRegex(d.Email) THEN ValidationError("email", "invalid format")
    ELSE nil

\* a payment check that accepts every provider
PaymentValidateAnyProvider(p) ==
    IF p.Transaction = "" THEN ValidationError("transaction", "is required")
    ELSE IF p.Currency \notin {"USD", "EUR", "RUB"}
        THEN ValidationError("currency", "invalid currency")
    ELSE IF p.Amount <= 0 THEN ValidationError("amount", "must be positive")
    ELSE IF p.PaymentDt <= 0 THEN ValidationError("payment_dt", "must be positive")
    ELSE IF p.Bank = "" THEN ValidationError("bank", "is required")
    ELSE IF p.DeliveryCost < 0 THEN ValidationError("delivery_cost", "cannot be negative")
    ELSE IF p.GoodsTotal <= 0 THEN ValidationError("goods_total", "must be positive")
    ELSE IF p.CustomFee < 0 THEN ValidationError("custom_fee", "cannot be negative")
    ELSE nil

\* Payment.Validate, models.go:225-263
PaymentValidate(p) ==
    IF p.Transaction = "" THEN ValidationError("transaction", "is required")
    ELSE IF p.Currency \notin {"USD", "EUR", "RUB"}
        THEN ValidationError("currency", "invalid currency")
    ELSE IF p.Provider \notin {"wbpay", "applepay", "googlepay"}
        THEN ValidationError("provider", "invalid payment provider")
    ELSE IF p.Amount <= 0 THEN ValidationError("amount", "must be positive")
    ELSE IF p.PaymentDt <= 0 THEN ValidationError("payment_dt", "must be positive")
    ELSE IF p.Bank = "" THEN ValidationError("bank", "is required")
    ELSE IF p.DeliveryCost < 0 THEN ValidationError("delivery_cost", "cannot be negative")
    ELSE IF p.GoodsTotal <= 0 THEN ValidationError("goods_total", "must be positive")
    ELSE IF p.CustomFee < 0 THEN ValidationError("custom_fee", "cannot be negative")
    ELSE nil

ItemValidate(i) ==
    IF i.ChrtID <= 0 THEN ValidationError("chrt_id", "must be positive")
    ELSE IF ~trackNumRegex(i.TrackNumber) THEN ValidationError("track_number", "invalid format")
    ELSE IF i.Price <= 0 THEN ValidationError("price", "must be positive")
    ELSE IF i.Rid = "" THEN ValidationError("rid", "is required")
    ELSE IF i.Name = "" THEN ValidationError("name", "is required")
    ELSE IF i.Sale < 0 \/ i.Sale > 100 THEN ValidationError("sale", "must be 0-100")
    ELSE IF i.Size = "" THEN ValidationError("size", "is required")
    ELSE IF i.TotalPrice <= 0 THEN ValidationError("total_price", "must be positive")
    ELSE IF i.NmID <= 0 THEN ValidationError("nm_id", "must be positive")
    ELSE IF i.Brand = "" THEN ValidationError("brand", "is required")
    ELSE IF i.Status < 0 THEN ValidationError("status", "cannot be negative")
    ELSE nil

\* the loop of models.go:152-156: the first failing item decides
ItemsValidate(items) ==
    LET bad == {n \in 1..Len(items) : ItemValidate(items[n]) # nil}
    IN  IF bad = {} THEN nil
        ELSE LET n == CHOOSE m \in bad : \A q \in bad : m <= q
             IN  Wrapf("item " \o ToString(n - 1) \o " validation failed",
                       ItemValidate(items[n]))

\* a validator that puts no upper bound on the length of the key
ValidateLongKeys(o) ==
    IF o.OrderUID = "" THEN ValidationError("order_uid", "is required")
    ELSE IF Len(o.OrderUID) < 10
        THEN ValidationError("order_uid", "must be 10-50 characters")
    ELSE IF ~trackNumRegex(o.TrackNumber) THEN ValidationError("track_number", "invalid format")
    ELSE IF o.Entry = "" THEN ValidationError("entry", "is required")
    ELSE IF DeliveryValidate(o.Delivery) # nil
        THEN Wrapf("delivery validation failed", DeliveryValidate(o.Delivery))
    ELSE IF PaymentValidate(o.Payment) # nil
        THEN Wrapf("payment validation failed", PaymentValidate(o.Payment))
    ELSE IF Len(o.Items) = 0
        THEN ValidationError("items", "order must contain at least one item")
    ELSE IF ItemsValidate(o.Items) # nil THEN ItemsValidate(o.Items)
    ELSE IF o.Locale # "en" /\ o.Locale # "ru"
        THEN ValidationError("locale", "must be either 'en' or 'ru'")
    ELSE IF o.CustomerID = "" THEN ValidationError("customer_id", "is required")
    ELSE IF o.DeliveryService = "" THEN ValidationError("delivery_service", "is required")
    ELSE IF o.Shardkey = "" THEN ValidationError("shardkey", "is required")
    ELSE IF o.SmID < 0 THEN ValidationError("sm_id", "must be positive")
    ELSE IF IsZero(o.DateCreated) THEN ValidationError("date_created", "is required")
    ELSE IF After(o.DateCreated, AddSeconds(Now, Hour))
        THEN ValidationError("date_created", "cannot be in the future")
    ELSE IF o.OofShard = "" THEN ValidationError("oof_shard", "is required")
    ELSE nil

\* Order.Validate, models.go:120-191
Validate(o) ==
    IF o.OrderUID = "" THEN ValidationError("order_uid", "is required")
    ELSE IF Len(o.OrderUID) < 10 \/ Len(o.OrderUID) > 50
        THEN ValidationError("order_uid", "must be 10-50 characters")
    ELSE IF ~trackNumRegex(o.TrackNumber) THEN ValidationError("track_number", "invalid format")
    ELSE IF o.Entry = "" THEN ValidationError("entry", "is required")
    ELSE IF DeliveryValidate(o.Delivery) # nil
        THEN Wrapf("delivery validation failed", DeliveryValidate(o.Delivery))
    ELSE IF PaymentValidate(o.Payment) # nil
        THEN Wrapf("payment validation failed", PaymentValidate(o.Payment))
    ELSE IF Len(o.Items) = 0
        THEN ValidationError("items", "order must contain at least one item")
    ELSE IF ItemsValidate(o.Items) # nil THEN ItemsValidate(o.Items)
    ELSE IF o.Locale # "en" /\ o.Locale # "ru"
        THEN ValidationError("locale", "must be either 'en' or 'ru'")
    ELSE IF o.CustomerID = "" THEN ValidationError("customer_id", "is required")
    ELSE IF o.DeliveryService = "" THEN ValidationError("delivery_service", "is required")
    ELSE IF o.Shardkey = "" THEN ValidationError("shardkey", "is required")
    ELSE IF o.SmID < 0 THEN ValidationError("sm_id", "must be positive")
    ELSE IF IsZero(o.DateCreated) THEN ValidationError("date_created", "is required")
    ELSE IF After(o.DateCreated, AddSeconds(Now, Hour))
        THEN ValidationError("date_created", "cannot be in the future")
    ELSE IF o.OofShard = "" THEN ValidationError("oof_shard", "is required")
    ELSE nil

----------------------------------------------------------------------------
(* Sample orders.  TestOrder is the order of the repository's integration  *)
(* test with a key of valid length; its creation time is a time.Now() with *)
(* nanoseconds, as the producer sends it.                                  *)

TestItem ==
    [ChrtID |-> 1234567, TrackNumber |-> "WBIL12345678", Price |-> 100,
     Rid |-> "rid123", Name |-> "Test Item", Sale |-> 10, Size |-> "1",
     TotalPrice |-> 90, NmID |-> 1234567, Brand |-> "Test Brand", Status |-> 200]

TestOrder ==
    [OrderUID |-> "order-0001", TrackNumber |-> "WBIL12345678", Entry |-> "WBIL",
     Delivery |-> [Name |-> "Test User", Phone |-> "+1234567890", Zip |-> "12345",
                   City |-> "Moscow", Address |-> "Test Address",
                   Region |-> "Test Region", Email |-> "test@example.com"],
     Payment |-> [Transaction |-> "order-0001", RequestID |-> "", Currency |-> "USD",
                  Provider |-> "wbpay", Amount |-> 1000, PaymentDt |-> 99000,
                  Bank |-> "sber", DeliveryCost |-> 500, GoodsTotal |-> 500,
                  CustomFee |-> 0],
     Items |-> <<TestItem, [TestItem EXCEPT !.ChrtID = 7654321, !.Name = "Second Item"]>>,
     Locale |-> "en", InternalSignature |-> "", CustomerID |-> "test_customer",
     DeliveryService |-> "meest", Shardkey |-> "1", SmID |-> 1,
     DateCreated |-> [sec |-> 99000, nsec |-> 123456789], OofShard |-> "1"]

\* a second and a third order, created on a whole microsecond
Order2 ==
    [TestOrder EXCEPT !.OrderUID = "order-0002", !.Items = <<TestItem>>,
                      !.Payment.Transaction = "order-0002",
                      !.DateCreated = [sec |-> 98000, nsec |-> 250000000]]

Order3 ==
    [TestOrder EXCEPT !.OrderUID = "order-0003", !.Items = <<TestItem>>,
                      !.Payment.Transaction = "order-0003", !.Locale = "ru",
                      !.DateCreated = [sec |-> 97000, nsec |-> 0]]

\* spec.md section 8: key "bad" fails the validator on order_uid
BadKeyOrder == [Order2 EXCEPT !.OrderUID = "bad"]

\* an order whose payment breaks a rule: Validate returns a wrapped error
BadPaymentOrder ==
    [Order2 EXCEPT !.OrderUID = "order-0004", !.Payment.Currency = "GBP"]

----------------------------------------------------------------------------
(* PostgreSQL.  A database state is the committed content of the four      *)
(* tables of the migration: orders, deliveries and payments hold at most   *)
(* one row per order_uid (primary key), items is a heap of rows.           *)

EmptyDB == [orders |-> {}, deliveries |-> {}, payments |-> {}, items |-> <<>>]

\* TIMESTAMPTZ keeps microseconds: the nanoseconds are rounded on input
Timestamptz(t) ==
    LET us == (t.nsec + 500) \div 1000
    IN  IF us = 1000000 THEN [sec |-> t.sec + 1, nsec |-> 0]
        ELSE [sec |-> t.sec, nsec |-> us * 1000]

HasRow(table, uid) == \E r \in table : r.order_uid = uid

RowOf(table, uid) == CHOOSE r \in table : r.order_uid = uid

DriverError == Errorf("driver: bad connection")

DuplicateKey == Errorf("pq: duplicate key value violates unique constraint")

ForeignKey == Errorf("pq: insert or update on table violates foreign key constraint")

TooLong == Errorf("pq: value too long for type character varying")

NoFault == [at |-> "none", n |-> 0]

Fault(at) == [at |-> at, n |-> 0]

\* the points of SaveOrder at which the database call can fail
SaveFaults(o) ==
    {NoFault} \cup {Fault(a) : a \in {"begin", "order", "delivery", "payment", "commit"}}
              \cup {[at |-> "item", n |-> i] : i \in 1..Len(o.Items)}

OrderRow(o) ==
    [order_uid |-> o.OrderUID, track_number |-> o.TrackNumber, entry |-> o.Entry,
     locale |-> o.Locale, internal_signature |-> o.InternalSignature,
     customer_id |-> o.CustomerID, delivery_service |-> o.DeliveryService,
     shardkey |-> o.Shardkey, sm_id |-> o.SmID,
     date_created |-> Timestamptz(o.DateCreated), oof_shard |-> o.OofShard]

DeliveryRow(o) ==
    [order_uid |-> o.OrderUID, name |-> o.Delivery.Name, phone |-> o.Delivery.Phone,
     zip |-> o.Delivery.Zip, city |-> o.Delivery.City, address |-> o.Delivery.Address,
     region |-> o.Delivery.Region, email |-> o.Delivery.Email]

PaymentRow(o) ==
    [order_uid |-> o.OrderUID, transaction |-> o.Payment.Transaction,
     request_id |-> o.Payment.RequestID, currency |-> o.Payment.Currency,
     provider |-> o.Payment.Provider, amount |-> o.Payment.Amount,
     payment_dt |-> o.Payment.PaymentDt, bank |-> o.Payment.Bank,
     delivery_cost |-> o.Payment.DeliveryCost, goods_total |-> o.Payment.GoodsTotal,
     custom_fee |-> o.Payment.CustomFee]

ItemRow(o, i) ==
    [order_uid |-> o.OrderUID, chrt_id |-> i.ChrtID, track_number |-> i.TrackNumber,
     price |-> i.Price, rid |-> i.Rid, name |-> i.Name, sale |-> i.Sale,
     size |-> i.Size, total_price |-> i.TotalPrice, nm_id |-> i.NmID,
     brand |-> i.Brand, status |-> i.Status]

\* column widths of the orders, deliveries, payments and items tables
OrderFits(r) ==
    /\ Len(r.order_uid) <= 50 /\ Len(r.track_number) <= 50 /\ Len(r.entry) <= 10
    /\ Len(r.locale) <= 10 /\ Len(r.internal_signature) <= 50
    /\ Len(r.customer_id) <= 50 /\ Len(r.delivery_service) <= 50
    /\ Len(r.shardkey) <= 10 /\ Len(r.oof_shard) <= 10

DeliveryFits(r) ==
    /\ Len(r.order_uid) <= 50 /\ Len(r.name) <= 100 /\ Len(r.phone) <= 20
    /\ Len(r.zip) <= 20 /\ Len(r.city) <= 100 /\ Len(r.address) <= 200
    /\ Len(r.region) <= 100 /\ Len(r.email) <= 100

PaymentFits(r) ==
    /\ Len(r.order_uid) <= 50 /\ Len(r.transaction) <= 50 /\ Len(r.request_id) <= 50
    /\ Len(r.currency) <= 10 /\ Len(r.provider) <= 50 /\ Len(r.bank) <= 50

ItemFits(r) ==
    /\ Len(r.order_uid) <= 50 /\ Len(r.track_number) <= 50 /\ Len(r.rid) <= 50
    /\ Len(r.name) <= 100 /\ Len(r.size) <= 10 /\ Len(r.brand) <= 100

----------------------------------------------------------------------------
(* A transaction works on tx, a private copy of the tables; st is the pair *)
(* [tx, err] the function body threads through its statements.            *)

\* db.Begin()
Begin(db, f) ==
    IF f.at = "begin" THEN [tx |-> db, err |-> DriverError]
    ELSE [tx |-> db, err |-> nil]

\* tx.ExecContext(orderQuery, ...)
InsertOrder(st, o, f) ==
    IF f.at = "order" THEN [st EXCEPT !.err = DriverError]
    ELSE IF HasRow(st.tx.orders, o.OrderUID) THEN [st EXCEPT !.err = DuplicateKey]
    ELSE IF ~OrderFits(OrderRow(o)) THEN [st EXCEPT !.err = TooLong]
    ELSE [st EXCEPT !.tx.orders = @ \cup {OrderRow(o)}]

\* tx.ExecContext(deliveryQuery, ...)
InsertDelivery(st, o, f) ==
    IF f.at = "delivery" THEN [st EXCEPT !.err = DriverError]
    ELSE IF HasRow(st.tx.deliveries, o.OrderUID) THEN [st EXCEPT !.err = DuplicateKey]
    ELSE IF ~HasRow(st.tx.orders, o.OrderUID) THEN [st EXCEPT !.err = ForeignKey]
    ELSE IF ~DeliveryFits(DeliveryRow(o)) THEN [st EXCEPT !.err = TooLong]
    ELSE [st EXCEPT !.tx.deliveries = @ \cup {DeliveryRow(o)}]

\* tx.ExecContext(paymentQuery, ...)
InsertPayment(st, o, f) ==
    IF f.at = "payment" THEN [st EXCEPT !.err = DriverError]
    ELSE IF HasRow(st.tx.payments, o.OrderUID) THEN [st EXCEPT !.err = DuplicateKey]
    ELSE IF ~HasRow(st.tx.orders, o.OrderUID) THEN [st EXCEPT !.err = ForeignKey]
    ELSE IF ~PaymentFits(PaymentRow(o)) THEN [st EXCEPT !.err = TooLong]
    ELSE [st EXCEPT !.tx.payments = @ \cup {PaymentRow(o)}]

\* tx.ExecContext(itemQuery, ...) for the n-th item
InsertItem(st, o, n, f) ==
    IF f.at = "item" /\ f.n = n THEN [st EXCEPT !.err = DriverError]
    ELSE IF ~HasRow(st.tx.orders, o.OrderUID) THEN [st EXCEPT !.err = ForeignKey]
    ELSE IF ~ItemFits(ItemRow(o, o.Items[n])) THEN [st EXCEPT !.err = TooLong]
    ELSE [st EXCEPT !.tx.items = Append(@, ItemRow(o, o.Items[n]))]

\* for _, item := range order.Items, returning at the first failing insert
RECURSIVE InsertItems(_, _, _, _)
InsertItems(st, o, n, f) ==
    IF n > Len(o.Items) THEN st
    ELSE LET s1 == InsertItem(st, o, n, f)
         IN  IF s1.err # nil THEN [s1 EXCEPT !.err = Wrapf("failed to insert item", s1.err)]
             ELSE InsertItems(s1, o, n + 1, f)

\* tx.Commit(): the tables become what the transaction wrote
Commit(db, st, f) ==
    IF f.at = "commit"
        THEN [db |-> db, err |-> Wrapf("failed to commit transaction", DriverError)]
        ELSE [db |-> st.tx, err |-> nil]

\* a rollback that leaves the statements already executed in place
RollbackKeepsWrites(db, st) == st.tx

\* the deferred tx.Rollback(): the tables stay as they were at Begin
Rollback(db, st) == db

\* a save that skips an order whose key is already stored (ON CONFLICT DO
\* NOTHING) and reports success
SaveOrderSkipsStored(db, o, f) ==
    IF HasRow(db.orders, o.OrderUID) THEN [db |-> db, err |-> nil]
    ELSE
        LET s0 == Begin(db, f)
            s1 == InsertOrder(s0, o, f)
            s2 == InsertDelivery(s1, o, f)
            s3 == InsertPayment(s2, o, f)
            s4 == InsertItems(s3, o, 1, f)
        IN  IF s0.err # nil
                THEN [db |-> db, err |-> Wrapf("failed to begin transaction", s0.err)]
            ELSE IF s1.err # nil
                THEN [db |-> Rollback(db, s1), err |-> Wrapf("failed to insert order", s1.err)]
            ELSE IF s2.err # nil
                THEN [db |-> Rollback(db, s2), err |-> Wrapf("failed to insert delivery", s2.err)]
            ELSE IF s3.err # nil
                THEN [db |-> Rollback(db, s3), err |-> Wrapf("failed to insert payment", s3.err)]
            ELSE IF s4.err # nil
                THEN [db |-> Rollback(db, s4), err |-> s4.err]
            ELSE LET c == Commit(db, s4, f)
                 IN  IF c.err # nil THEN [db |-> Rollback(db, s4), err |-> c.err]
                     ELSE c

\* SaveOrder returns [db, err]: the tables after the call and its error
SaveOrder(db, o, f) ==
    LET s0 == Begin(db, f)
        s1 == InsertOrder(s0, o, f)
        s2 == InsertDelivery(s1, o, f)
        s3 == InsertPayment(s2, o, f)
        s4 == InsertItems(s3, o, 1, f)
    IN  IF s0.err # nil
            THEN [db |-> db, err |-> Wrapf("failed to begin transaction", s0.err)]
        ELSE IF s1.err # nil
            THEN [db |-> Rollback(db, s1), err |-> Wrapf("failed to insert order", s1.err)]
        ELSE IF s2.err # nil
            THEN [db |-> Rollback(db, s2), err |-> Wrapf("failed to insert delivery", s2.err)]
        ELSE IF s3.err # nil
            THEN [db |-> Rollback(db, s3), err |-> Wrapf("failed to insert payment", s3.err)]
        ELSE IF s4.err # nil
            THEN [db |-> Rollback(db, s4), err |-> s4.err]
        ELSE LET c == Commit(db, s4, f)
             IN  IF c.err # nil THEN [db |-> Rollback(db, s4), err |-> c.err]
                 ELSE c

----------------------------------------------------------------------------
(* getFromDB, storage.go:337-460                                           *)

ErrNoRows == Errorf("sql: no rows in result set")

\* the points of getFromDB at which the database call can fail
LoadFaults ==
    {NoFault} \cup {Fault(a) : a \in {"begin", "order", "delivery", "payment", "items", "commit"}}

ItemOf(r) ==
    [ChrtID |-> r.chrt_id, TrackNumber |-> r.track_number, Price |-> r.price,
     Rid |-> r.rid, Name |-> r.name, Sale |-> r.sale, Size |-> r.size,
     TotalPrice |-> r.total_price, NmID |-> r.nm_id, Brand |-> r.brand,
     Status |-> r.status]

\* SELECT ... FROM items WHERE order_uid = $1, scanned in heap order
RECURSIVE ItemsOf(_, _)
ItemsOf(rows, uid) ==
    IF rows = <<>> THEN <<>>
    ELSE IF Head(rows).order_uid = uid
        THEN <<ItemOf(Head(rows))>> \o ItemsOf(Tail(rows), uid)
        ELSE ItemsOf(Tail(rows), uid)

\* the aggregate the four queries rebuild; only called when the rows exist
Rebuild(db, uid) ==
    LET r == RowOf(db.orders, uid)
        d == RowOf(db.deliveries, uid)
        p == RowOf(db.payments, uid)
    IN  [OrderUID |-> uid, TrackNumber |-> r.track_number, Entry |-> r.entry,
         Delivery |-> [Name |-> d.name, Phone |-> d.phone, Zip |-> d.zip,
                       City |-> d.city, Address |-> d.address, Region |-> d.region,
                       Email |-> d.email],
         Payment |-> [Transaction |-> p.transaction, RequestID |-> p.request_id,
                      Currency |-> p.currency, Provider |-> p.provider,
                      Amount |-> p.amount, PaymentDt |-> p.payment_dt, Bank |-> p.bank,
                      DeliveryCost |-> p.delivery_cost, GoodsTotal |-> p.goods_total,
                      CustomFee |-> p.custom_fee],
         Items |-> ItemsOf(db.items, uid),
         Locale |-> r.locale, InternalSignature |-> r.internal_signature,
         CustomerID |-> r.customer_id, DeliveryService |-> r.delivery_service,
         Shardkey |-> r.shardkey, SmID |-> r.sm_id, DateCreated |-> r.date_created,
         OofShard |-> r.oof_shard]

\* the nil *models.Order
NoOrder == [OrderUID |-> ""]

\* a missing child row reported with the text of a missing order
MissingChildAsNotFound(what) ==
    [order |-> NoOrder, err |-> Errorf("order not found"), tx |-> "rolledback"]

\* the order row was found, the delivery or payment row was not:
\* QueryRow(...).Scan returns sql.ErrNoRows, storage.go:386-388 and 411-413
MissingChild(what) ==
    [order |-> NoOrder, err |-> Wrapf("failed to get " \o what, ErrNoRows),
     tx |-> "rolledback"]

\* an error return of getFromDB after Begin: the deferred tx.Rollback() ends
\* the transaction, storage.go:342
Failure(e) == [order |-> NoOrder, err |-> e, tx |-> "rolledback"]

\* getFromDB returns [order, err, tx]: tx tells how its transaction ended
getFromDB(db, uid, f) ==
    IF f.at = "begin"
        THEN [order |-> NoOrder, err |-> Wrapf("failed to begin transaction", DriverError),
              tx |-> "none"]
    ELSE IF f.at = "order"
        THEN Failure(Wrapf("failed to get order", DriverError))
    ELSE IF ~HasRow(db.orders, uid)
        THEN Failure(Errorf("order not found"))
    ELSE IF f.at = "delivery"
        THEN Failure(Wrapf("failed to get delivery", DriverError))
    ELSE IF ~HasRow(db.deliveries, uid)
        THEN MissingChild("delivery")
    ELSE IF f.at = "payment"
        THEN Failure(Wrapf("failed to get payment", DriverError))
    ELSE IF ~HasRow(db.payments, uid)
        THEN MissingChild("payment")
    ELSE IF f.at = "items"
        THEN Failure(Wrapf("failed to get items", DriverError))
    ELSE IF f.at = "commit"
        THEN Failure(Wrapf("failed to commit transaction", DriverError))
    ELSE [order |-> Rebuild(db, uid), err |-> nil, tx |-> "committed"]

----------------------------------------------------------------------------
(* Redis.  cache maps a key to the stored value, lru is the list kept      *)
(* under the key "recently used", head first.                              *)

\* the size the model gives the cache in place of the 1000 of storage.go:24
MaxCache == 2

\* const cacheLimit
cacheLimit == MaxCache

\* failed Redis and PostgreSQL calls one run of the cache layer sees
MaxFaults == 1

\* json.Marshal(order) and json.Unmarshal(val, &order)
Marshal(o) == [valid |-> TRUE, doc |-> o]

Unmarshal(v) ==
    IF v.valid THEN [order |-> v.doc, err |-> nil]
    ELSE [order |-> NoOrder, err |-> Errorf("invalid character looking for beginning of value")]

RedisError == Errorf("redis: connection refused")

\* the commands of saveToRedis that can fail
PutFaults == {NoFault} \cup {Fault(a) : a \in {"set", "lpush", "llen", "lrange", "del", "ltrim"}}

\* DEL olds...
Del(c, olds) ==
    LET gone == {olds[i] : i \in 1..Len(olds)}
    IN  [k \in (DOMAIN c) \ gone |-> c[k]]

\* LRANGE key start stop (0-based, inclusive); a stop beyond the end of the
\* list is the end of the list
LRange(l, start, stop) ==
    SubSeq(l, start + 1, IF stop + 1 < Len(l) THEN stop + 1 ELSE Len(l))

\* LTRIM key start stop
LTrim(l, start, stop) ==
    SubSeq(l, start + 1, IF stop + 1 < Len(l) THEN stop + 1 ELSE Len(l))

\* the cache holds an entry for uid that decodes to an order
HeldDecodable(c, uid) == uid \in DOMAIN c /\ Unmarshal(c[uid]).err = nil

\* a cache read that reports a miss whatever the cache holds
getFromCacheNeverHits(c, uid, f) ==
    [order |-> NoOrder, err |-> Errorf("not found in cache")]

\* getFromCache returns [order, err]
getFromCache(c, uid, f) ==
    IF f.at = "get" THEN [order |-> NoOrder, err |-> Wrapf("redis get error", RedisError)]
    ELSE IF uid \notin DOMAIN c THEN [order |-> NoOrder, err |-> Errorf("not found in cache")]
    ELSE IF Unmarshal(c[uid]).err # nil
        THEN [order |-> NoOrder, err |-> Wrapf("cache decode error", Unmarshal(c[uid]).err)]
    ELSE [order |-> Unmarshal(c[uid]).order, err |-> nil]

\* an eviction that trims the list and leaves the entries of the trimmed
\* keys in the cache
EvictKeepsEntries(c, l, f) ==
    LET olds == LRange(l, cacheLimit, Len(l) - 1)
    IN  IF f.at \in {"lrange", "del", "ltrim"}
            THEN [cache |-> c, lru |-> l, evicted |-> <<>>,
                  err |-> Wrapf("redis " \o f.at \o " error", RedisError)]
        ELSE [cache |-> c, lru |-> LTrim(l, 0, cacheLimit - 1),
              evicted |-> olds, err |-> nil]

\* the branch taken when LLEN exceeds cacheLimit, storage.go:485-496
Evict(c, l, f) ==
    LET olds == LRange(l, cacheLimit, Len(l) - 1)
    IN  IF f.at = "lrange"
            THEN [cache |-> c, lru |-> l, evicted |-> <<>>,
                  err |-> Wrapf("redis lrange error", RedisError)]
        ELSE IF f.at = "del"
            THEN [cache |-> c, lru |-> l, evicted |-> <<>>,
                  err |-> Wrapf("redis del error", RedisError)]
        ELSE IF f.at = "ltrim"
            THEN [cache |-> Del(c, olds), lru |-> l, evicted |-> <<>>,
                  err |-> Wrapf("redis ltrim error", RedisError)]
        ELSE [cache |-> Del(c, olds), lru |-> LTrim(l, 0, cacheLimit - 1),
              evicted |-> olds, err |-> nil]

\* saveToRedis returns [cache, lru, evicted, err]: the store after the call,
\* the keys it trimmed off the list, and its error
saveToRedis(c, l, o, f) ==
    LET c1 == [k \in (DOMAIN c) \cup {o.OrderUID} |->
                  IF k = o.OrderUID THEN Marshal(o) ELSE c[k]]
        l1 == <<o.OrderUID>> \o l
    IN  IF f.at = "set"
            THEN [cache |-> c, lru |-> l, evicted |-> <<>>,
                  err |-> Wrapf("redis set error", RedisError)]
        ELSE IF f.at = "lpush"
            THEN [cache |-> c1, lru |-> l, evicted |-> <<>>,
                  err |-> Wrapf("redis lpush error", RedisError)]
        ELSE IF f.at = "llen"
            THEN [cache |-> c1, lru |-> l1, evicted |-> <<>>,
                  err |-> Wrapf("redis llen error", RedisError)]
        ELSE IF Len(l1) > cacheLimit THEN Evict(c1, l1, f)
        ELSE [cache |-> c1, lru |-> l1, evicted |-> <<>>, err |-> nil]

\* the key of the recency list, storage.go:471
Lkey == "recently used"

\* the commands a put sends when it enforces the bound on every call
RedisCommandsAlwaysTrim(l, o, f) ==
    LET length == Len(l) + 1
        olds == LRange(<<o.OrderUID>> \o l, cacheLimit, length - 1)
        all == << [cmd |-> "SET", key |-> o.OrderUID, value |-> Marshal(o), ttl |-> 72 * Hour],
                  [cmd |-> "LPUSH", key |-> Lkey, member |-> o.OrderUID],
                  [cmd |-> "LLEN", key |-> Lkey],
                  [cmd |-> "LRANGE", key |-> Lkey, start |-> cacheLimit, stop |-> length - 1],
                  [cmd |-> "DEL", keys |-> olds],
                  [cmd |-> "LTRIM", key |-> Lkey, start |-> 0, stop |-> cacheLimit - 1] >>
    IN  IF f.at = "set" THEN SubSeq(all, 1, 1)
        ELSE IF f.at = "lpush" THEN SubSeq(all, 1, 2)
        ELSE IF f.at = "llen" THEN SubSeq(all, 1, 3)
        ELSE IF f.at = "lrange" THEN SubSeq(all, 1, 4)
        ELSE IF f.at = "del" THEN SubSeq(all, 1, 5)
        ELSE all

\* the commands saveToRedis sends to Redis, in order, up to the one that
\* fails, storage.go:475-497; l is the list before the call
RedisCommands(l, o, f) ==
    LET length == Len(l) + 1
        olds == LRange(<<o.OrderUID>> \o l, cacheLimit, length - 1)
        all == << [cmd |-> "SET", key |-> o.OrderUID, value |-> Marshal(o), ttl |-> 72 * Hour],
                  [cmd |-> "LPUSH", key |-> Lkey, member |-> o.OrderUID],
                  [cmd |-> "LLEN", key |-> Lkey],
                  [cmd |-> "LRANGE", key |-> Lkey, start |-> cacheLimit, stop |-> length - 1],
                  [cmd |-> "DEL", keys |-> olds],
                  [cmd |-> "LTRIM", key |-> Lkey, start |-> 0, stop |-> cacheLimit - 1] >>
    IN  IF f.at = "set" THEN SubSeq(all, 1, 1)
        ELSE IF f.at = "lpush" THEN SubSeq(all, 1, 2)
        ELSE IF f.at = "llen" THEN SubSeq(all, 1, 3)
        ELSE IF length <= cacheLimit THEN SubSeq(all, 1, 3)
        ELSE IF f.at = "lrange" THEN SubSeq(all, 1, 4)
        ELSE IF f.at = "del" THEN SubSeq(all, 1, 5)
        ELSE all

----------------------------------------------------------------------------
(* State                                                                   *)

VARIABLES
    db,       \* PostgreSQL: the committed tables
    saved,    \* the orders whose SaveOrder returned nil (history)
    cache,    \* Redis: key -> stored value
    lru,      \* Redis: the "recently used" list
    op,       \* the storage call that ran last and what it returned
    faults,   \* the calls of GetOrder and of the preload that have failed so far
    pre,      \* preloadCache / batchPreload: dispatcher, semaphore, workers
    pc,       \* where ReadMSG / processWithRetry stands
    msg,      \* the kafka.Message being processed
    attempt,  \* the loop variable of processWithRetry
    lastErr,  \* lastErr of processWithRetry
    ret,      \* what processWithRetry returned for msg
    stat,     \* what has been done for msg so far (history)
    dlq,      \* the messages written to the orders_dlq topic
    nread,    \* messages consumed so far
    readErrs  \* failed reader.ReadMessage calls so far

storeVars == <<db, saved, cache, lru, op, faults, pre>>

pipeVars == <<pc, msg, attempt, lastErr, ret, stat, dlq, nread, readErrs>>

vars == <<db, saved, cache, lru, op, faults, pre, pc, msg, attempt, lastErr, ret, stat, dlq, nread, readErrs>>

\* the same key as TestOrder with other content: a second save of one key
Reorder == [TestOrder EXCEPT !.Delivery.Name = "Other User", !.Items = <<TestItem>>]

\* the orders written and the keys read in the model
Orders == {TestOrder, Order2, Order3}

Keys == {o.OrderUID : o \in Orders} \cup {"nonexistent"}

NoOp == [name |-> "none"]

\* before preloadCache is called: no worker, empty semaphore and wait group
NoPreload ==
    [pc |-> "idle", uids |-> <<>>, next |-> 1, sem |-> 0, wg |-> 0,
     w |-> [k \in {} |-> 0], crashed |-> FALSE]

EmptyCache == [k \in {} |-> Marshal(NoOrder)]

----------------------------------------------------------------------------
(* The consumer before its first message                                   *)

NoMsg == [Key |-> "", Value |-> Marshal(NoOrder), Offset |-> -1]

\* sleeps counts the time.Sleep calls, delay is the duration of the last one
NoStat == [procCalls |-> 0, saveCalls |-> 0, saveFails |-> 0, commits |-> 0,
           sleeps |-> 0, delay |-> 0, dlqCalls |-> 0, dlqWritten |-> 0]

PipeIdle ==
    /\ pc = "read"
    /\ msg = NoMsg
    /\ attempt = 0
    /\ lastErr = nil
    /\ ret = nil
    /\ stat = NoStat
    /\ dlq = <<>>
    /\ nread = 0
    /\ readErrs = 0

\* a fresh deployment: empty tables, empty Redis
StoreInit ==
    /\ db = EmptyDB
    /\ saved = {}
    /\ cache = EmptyCache
    /\ lru = <<>>
    /\ op = NoOp
    /\ faults = 0
    /\ pre = NoPreload
    /\ PipeIdle

\* the tables after the three orders were saved, Redis still empty
SavedDB ==
    SaveOrder(SaveOrder(SaveOrder(EmptyDB, TestOrder, NoFault).db,
                        Order2, NoFault).db, Order3, NoFault).db

CacheInit ==
    /\ db = SavedDB
    /\ saved = Orders
    /\ cache = EmptyCache
    /\ lru = <<>>
    /\ op = NoOp
    /\ faults = 0
    /\ pre = NoPreload
    /\ PipeIdle

\* a call of Storage.SaveOrder
Save(o, f) ==
    LET r == SaveOrder(db, o, f)
    IN  /\ db' = r.db
        /\ saved' = IF r.err = nil THEN saved \cup {o} ELSE saved
        /\ op' = [name |-> "SaveOrder", key |-> o.OrderUID, order |-> o, err |-> r.err]
        /\ UNCHANGED <<cache, lru, faults>>
        /\ UNCHANGED <<pre, pipeVars>>

\* what service.GetOrder writes for the (order, err) its provider returned:
\* the c.JSON calls in order, service.go:28-32; there is no return after the
\* first one
ServiceGetOrder(order, err) ==
    (IF err # nil
        THEN <<[code |-> 400, body |-> [k \in {"error: "} |-> err.msg]]>>
        ELSE <<>>)
    \o <<[code |-> 200, body |-> [order |-> order]]>>

\* a hit that moves the key to the front of the recency list
GetOrderHitPromotes(uid, c) ==
    /\ op' = [name |-> "GetOrder", key |-> uid, order |-> c.order, err |-> nil,
              hit |-> TRUE, cacheErr |-> c.err, dbread |-> FALSE,
              loaded |-> NoOrder, put |-> "none", evicted |-> <<>>,
              resp |-> ServiceGetOrder(c.order, nil)]
    /\ lru' = <<uid>> \o SelectSeq(lru, LAMBDA k : k # uid)
    /\ UNCHANGED <<db, saved, cache>>
    /\ UNCHANGED <<pre, pipeVars>>

\* GetOrder answered from the cache, storage.go:320-325
GetOrderHit(uid, c) ==
    /\ op' = [name |-> "GetOrder", key |-> uid, order |-> c.order, err |-> nil,
              hit |-> TRUE, cacheErr |-> c.err, dbread |-> FALSE,
              loaded |-> NoOrder, put |-> "none", evicted |-> <<>>,
              resp |-> ServiceGetOrder(c.order, nil)]
    /\ UNCHANGED <<db, saved, cache, lru>>
    /\ UNCHANGED <<pre, pipeVars>>

\* a GetOrder that caches an empty order under the key it did not find
GetOrderLoadFailedCachesMiss(uid, c, l) ==
    /\ op' = [name |-> "GetOrder", key |-> uid, order |-> NoOrder,
              err |-> Errorf("error of getting order from DB: " \o l.err.msg),
              hit |-> FALSE, cacheErr |-> c.err, dbread |-> TRUE,
              loaded |-> NoOrder, put |-> "none", evicted |-> <<>>,
              resp |-> ServiceGetOrder(NoOrder,
                          Errorf("error of getting order from DB: " \o l.err.msg))]
    /\ cache' = [k \in (DOMAIN cache) \cup {uid} |->
                    IF k = uid THEN Marshal(NoOrder) ELSE cache[k]]
    /\ UNCHANGED <<db, saved, lru>>
    /\ UNCHANGED <<pre, pipeVars>>

\* GetOrder when getFromDB fails, storage.go:326-329
GetOrderLoadFailed(uid, c, l) ==
    /\ op' = [name |-> "GetOrder", key |-> uid, order |-> NoOrder,
              err |-> Errorf("error of getting order from DB: " \o l.err.msg),
              hit |-> FALSE, cacheErr |-> c.err, dbread |-> TRUE,
              loaded |-> NoOrder, put |-> "none", evicted |-> <<>>,
              resp |-> ServiceGetOrder(NoOrder,
                          Errorf("error of getting order from DB: " \o l.err.msg))]
    /\ UNCHANGED <<db, saved, cache, lru>>
    /\ UNCHANGED <<pre, pipeVars>>

\* GetOrder after a successful load: repopulate, storage.go:330-333
GetOrderLoaded(uid, c, l, f) ==
    LET p == saveToRedis(cache, lru, l.order, f)
        order == IF p.err # nil THEN NoOrder ELSE l.order
        err == IF p.err # nil
               THEN Errorf("failed to save data in redis: " \o p.err.msg)
               ELSE nil
    IN  /\ cache' = p.cache
        /\ lru' = p.lru
        /\ op' = [name |-> "GetOrder", key |-> uid, order |-> order, err |-> err,
                  hit |-> FALSE, cacheErr |-> c.err, dbread |-> TRUE,
                  loaded |-> l.order,
                  put |-> IF p.err # nil THEN "failed" ELSE "ok",
                  evicted |-> p.evicted,
                  resp |-> ServiceGetOrder(order, err)]
        /\ UNCHANGED <<db, saved>>
        /\ UNCHANGED <<pre, pipeVars>>

\* the failures getFromDB can meet for uid: a query after the order row was
\* not found is never issued
LoadFaultsFor(d, uid) ==
    IF HasRow(d.orders, uid) THEN LoadFaults ELSE {NoFault, Fault("begin"), Fault("order")}

\* the failures saveToRedis can meet on list l: LRANGE, DEL and LTRIM are
\* issued only when the list grows beyond cacheLimit
PutFaultsFor(l) ==
    IF Len(l) + 1 > cacheLimit THEN PutFaults
    ELSE {NoFault, Fault("set"), Fault("lpush"), Fault("llen")}

\* the number of failed calls among the three fault choices of a GetOrder
Failed(cf, lf, pf) ==
    (IF cf = NoFault THEN 0 ELSE 1) + (IF lf = NoFault THEN 0 ELSE 1)
        + (IF pf = NoFault THEN 0 ELSE 1)

\* a call of Storage.GetOrder; its faults are the calls that fail during it
GetOrder(uid) ==
    \E cf \in {NoFault, Fault("get")} :
        LET c == getFromCache(cache, uid, cf)
        IN  IF c.err = nil
                THEN /\ GetOrderHit(uid, c)
                     /\ faults' = faults
            ELSE \E lf \in LoadFaultsFor(db, uid) :
                LET l == getFromDB(db, uid, lf)
                IN  IF l.err # nil
                        THEN /\ faults + Failed(cf, lf, NoFault) <= MaxFaults
                             /\ GetOrderLoadFailed(uid, c, l)
                             /\ faults' = faults + Failed(cf, lf, NoFault)
                    ELSE \E pf \in PutFaultsFor(lru) :
                        /\ faults + Failed(cf, lf, pf) <= MaxFaults
                        /\ GetOrderLoaded(uid, c, l, pf)
                        /\ faults' = faults + Failed(cf, lf, pf)

\* the 72-hour time-to-live of an entry runs out, storage.go:475
Expire(uid) ==
    /\ uid \in DOMAIN cache
    /\ cache' = [k \in (DOMAIN cache) \ {uid} |-> cache[k]]
    /\ op' = [name |-> "Expire", key |-> uid]
    /\ UNCHANGED <<db, saved, lru, faults>>
    /\ UNCHANGED <<pre, pipeVars>>

\* another client of the Redis instance overwrites an entry with a value
\* that is not the JSON of an order (the "invalid data" case of
\* TestGetFromCache, storage_integration_test.go:40-46)
NotJSON == [valid |-> FALSE, doc |-> NoOrder]

\* the keys whose entry gets overwritten in the model
CorruptKeys == {TestOrder.OrderUID}

Corrupt(uid) ==
    /\ uid \in DOMAIN cache
    /\ cache[uid] # NotJSON
    /\ cache' = [cache EXCEPT ![uid] = NotJSON]
    /\ op' = [name |-> "Corrupt", key |-> uid]
    /\ UNCHANGED <<db, saved, lru, faults>>
    /\ UNCHANGED <<pre, pipeVars>>

\* a call of saveToRedis on its own, with the stored order of key uid as
\* GetOrder and the preload hand it over, storage.go:176 and 331
Put(uid, f) ==
    LET p == saveToRedis(cache, lru, getFromDB(db, uid, NoFault).order, f)
    IN  /\ HasRow(db.orders, uid)
        /\ faults + Failed(f, NoFault, NoFault) <= MaxFaults
        /\ faults' = faults + Failed(f, NoFault, NoFault)
        /\ cache' = p.cache
        /\ lru' = p.lru
        /\ op' = [name |-> "saveToRedis", key |-> uid, err |-> p.err,
                  evicted |-> p.evicted,
                  cmds |-> RedisCommands(lru, getFromDB(db, uid, NoFault).order, f)]
        /\ UNCHANGED <<db, saved>>
        /\ UNCHANGED <<pre, pipeVars>>

\* a call of getFromDB on its own
Load(uid, f) ==
    LET l == getFromDB(db, uid, f)
    IN  /\ op' = [name |-> "getFromDB", key |-> uid, order |-> l.order, err |-> l.err,
                  tx |-> l.tx, fault |-> f]
        /\ UNCHANGED <<db, saved, cache, lru, faults>>
        /\ UNCHANGED <<pre, pipeVars>>

\* DELETE FROM t, one statement on its own as the integration test's set-up
\* issues them (storage_mainIntergation_test.go:31-38); deleting orders
\* that are still referenced is refused by the foreign keys of the schema
Tables == {"items", "payments", "deliveries", "orders"}

Referenced(d) ==
    {r.order_uid : r \in d.deliveries} \cup {r.order_uid : r \in d.payments}
        \cup {d.items[i].order_uid : i \in 1..Len(d.items)}

DeleteFrom(t) ==
    /\ db' = IF t = "items" THEN [db EXCEPT !.items = <<>>]
             ELSE IF t = "payments" THEN [db EXCEPT !.payments = {}]
             ELSE IF t = "deliveries" THEN [db EXCEPT !.deliveries = {}]
             ELSE IF Referenced(db) = {} THEN [db EXCEPT !.orders = {}]
             ELSE db
    /\ op' = [name |-> "DeleteFrom", key |-> t,
              err |-> IF t = "orders" /\ Referenced(db) # {} THEN ForeignKey ELSE nil]
    /\ UNCHANGED <<saved, cache, lru, faults>>
    /\ UNCHANGED <<pre, pipeVars>>

StoreNext ==
    \/ \E o \in Orders \cup {Reorder} : \E f \in SaveFaults(o) : Save(o, f)
    \/ \E uid \in Keys : \E f \in LoadFaults : Load(uid, f)

\* loads while the tables are being cleared statement by statement
CleanupNext ==
    \/ \E t \in Tables : DeleteFrom(t)
    \/ \E uid \in Keys : \E f \in LoadFaults : Load(uid, f)

\* puts one after the other
PutNext == \E uid \in Keys : \E f \in PutFaultsFor(lru) : Put(uid, f)

CacheNext ==
    \/ \E uid \in Keys : GetOrder(uid)
    \/ \E uid \in Keys : Expire(uid)
    \/ \E uid \in CorruptKeys : Corrupt(uid)

----------------------------------------------------------------------------
(* Cache preload at start-up, storage.go:125-182.  The dispatcher is the   *)
(* loop of batchPreload; a worker is one of its goroutines, and each of    *)
(* its Redis commands is a step of its own, so that the commands of        *)
(* workers running at once interleave as they do on the Redis server.      *)

\* the workers the model lets run at once in place of the 50 of storage.go:157
MaxWorkers == 1

\* const size
size == MaxWorkers

\* SELECT order_uid FROM orders ORDER BY date_created DESC LIMIT n
RECURSIVE MostRecent(_, _)
MostRecent(rows, n) ==
    IF n = 0 \/ rows = {} THEN <<>>
    ELSE LET r == CHOOSE x \in rows :
                      \A y \in rows : ~After(y.date_created, x.date_created)
         IN  <<r.order_uid>> \o MostRecent(rows \ {r}, n - 1)

\* a goroutine that has just been started
NewWorker ==
    [pc |-> "fetch", order |-> NoOrder, err |-> nil, length |-> 0, olds |-> <<>>,
     put |-> "none"]

\* the goroutines that were started and have not finished
Running == {u \in DOMAIN pre.w : pre.w[u].pc # "done"}

\* the tables the preload is run against: empty, one order, three orders
PreloadStores ==
    {EmptyDB, SaveOrder(EmptyDB, TestOrder, NoFault).db, SavedDB}

\* what Redis holds at start-up: nothing; two orders read before the
\* restart; their list after the entries have expired
Redis(c, l) == [cache |-> c, lru |-> l]

TwoCached ==
    LET a == saveToRedis(EmptyCache, <<>>,
                         getFromDB(SavedDB, TestOrder.OrderUID, NoFault).order, NoFault)
    IN  saveToRedis(a.cache, a.lru,
                    getFromDB(SavedDB, Order2.OrderUID, NoFault).order, NoFault)

PriorRedis ==
    {Redis(EmptyCache, <<>>), Redis(TwoCached.cache, TwoCached.lru),
     Redis(EmptyCache, TwoCached.lru)}

PreloadInit ==
    /\ db \in PreloadStores
    /\ saved = {}
    /\ \E r \in PriorRedis :
          /\ r.lru # <<>> => db = SavedDB
          /\ cache = r.cache
          /\ lru = r.lru
    /\ op = NoOp
    /\ faults = 0
    /\ pre = NoPreload
    /\ PipeIdle

\* a call that fails is allowed while the run has failures left
MayFail(ok) == ok \/ faults < MaxFaults

Count(ok) == IF ok THEN faults ELSE faults + 1

\* preloadCache up to the call of batchPreload, storage.go:125-143
PreloadCache(ok) ==
    /\ pre.pc = "idle"
    /\ MayFail(ok)
    /\ faults' = Count(ok)
    /\ LET uids == MostRecent(db.orders, cacheLimit)
       IN  pre' = [pre EXCEPT !.uids = IF ok THEN uids ELSE <<>>,
                              !.pc = IF ~ok THEN "failed"
                                     ELSE IF Len(uids) > 0 THEN "dispatch"
                                     ELSE "returned"]
    /\ UNCHANGED <<db, saved, cache, lru, op>>
    /\ UNCHANGED pipeVars

\* a dispatch that does not wait for a free slot
DispatchUnbounded ==
    /\ pre.pc = "dispatch"
    /\ ~pre.crashed
    /\ pre.next <= Len(pre.uids)
    /\ pre' = [pre EXCEPT !.sem = @ + 1, !.wg = @ + 1, !.next = @ + 1,
                          !.w = [u \in (DOMAIN pre.w) \cup {pre.uids[pre.next]} |->
                                    IF u = pre.uids[pre.next] THEN NewWorker ELSE pre.w[u]]]
    /\ UNCHANGED <<db, saved, cache, lru, op, faults>>
    /\ UNCHANGED pipeVars

\* one pass of the loop of batchPreload: take a slot, wg.Add(1), go,
\* storage.go:160-163
Dispatch ==
    /\ pre.pc = "dispatch"
    /\ ~pre.crashed
    /\ pre.next <= Len(pre.uids)
    /\ pre.sem < size
    /\ pre' = [pre EXCEPT !.sem = @ + 1, !.wg = @ + 1, !.next = @ + 1,
                          !.w = [u \in (DOMAIN pre.w) \cup {pre.uids[pre.next]} |->
                                    IF u = pre.uids[pre.next] THEN NewWorker ELSE pre.w[u]]]
    /\ UNCHANGED <<db, saved, cache, lru, op, faults>>
    /\ UNCHANGED pipeVars

\* the loop is over: wg.Wait(), storage.go:181
EndOfLoop ==
    /\ pre.pc = "dispatch"
    /\ ~pre.crashed
    /\ pre.next > Len(pre.uids)
    /\ pre' = [pre EXCEPT !.pc = "wait"]
    /\ UNCHANGED <<db, saved, cache, lru, op, faults>>
    /\ UNCHANGED pipeVars

\* wg.Wait() returns when the counter is zero; preloadCache returns nil,
\* storage.go:181 and 144
Wait ==
    /\ pre.pc = "wait"
    /\ ~pre.crashed
    /\ pre.wg = 0
    /\ pre' = [pre EXCEPT !.pc = "returned"]
    /\ UNCHANGED <<db, saved, cache, lru, op, faults>>
    /\ UNCHANGED pipeVars

\* the worker of uid stands at p
At(uid, p) == ~pre.crashed /\ uid \in DOMAIN pre.w /\ pre.w[uid].pc = p

\* the failures of getFromDB a worker is run against
FetchFaults == {NoFault, Fault("order")}

\* order, err := s.getFromDB(uid); an error is logged and the worker goes
\* on with the nil order, storage.go:168-171
Fetch(uid, f) ==
    /\ At(uid, "fetch")
    /\ MayFail(f = NoFault)
    /\ faults' = Count(f = NoFault)
    /\ LET l == getFromDB(db, uid, f)
       IN  pre' = [pre EXCEPT !.w[uid].order = l.order, !.w[uid].err = l.err,
                              !.w[uid].pc = "set"]
    /\ UNCHANGED <<db, saved, cache, lru, op>>
    /\ UNCHANGED pipeVars

\* saveToRedis up to SET, storage.go:470-477: json.Marshal of the nil order
\* gives "null", then order.OrderUID dereferences the nil pointer and the
\* goroutine panics, which ends the process
Set(uid, ok) ==
    /\ At(uid, "set")
    /\ MayFail(ok)
    /\ faults' = Count(ok)
    /\ IF pre.w[uid].order = NoOrder
          THEN /\ ok
               /\ pre' = [pre EXCEPT !.w[uid].pc = "panic", !.crashed = TRUE]
               /\ cache' = cache
          ELSE /\ cache' = IF ok THEN [k \in (DOMAIN cache) \cup {uid} |->
                                         IF k = uid THEN Marshal(pre.w[uid].order)
                                         ELSE cache[k]]
                           ELSE cache
               /\ pre' = [pre EXCEPT !.w[uid].pc = IF ok THEN "lpush" ELSE "release",
                                     !.w[uid].put = IF ok THEN "none" ELSE "failed"]
    /\ UNCHANGED <<db, saved, lru, op>>
    /\ UNCHANGED pipeVars

\* LPUSH, storage.go:478-480
LPush(uid, ok) ==
    /\ At(uid, "lpush")
    /\ MayFail(ok)
    /\ faults' = Count(ok)
    /\ lru' = IF ok THEN <<uid>> \o lru ELSE lru
    /\ pre' = [pre EXCEPT !.w[uid].pc = IF ok THEN "llen" ELSE "release",
                          !.w[uid].put = IF ok THEN "none" ELSE "failed"]
    /\ UNCHANGED <<db, saved, cache, op>>
    /\ UNCHANGED pipeVars

\* LLEN and the test of the length, storage.go:481-485
LLen(uid, ok) ==
    /\ At(uid, "llen")
    /\ MayFail(ok)
    /\ faults' = Count(ok)
    /\ pre' = [pre EXCEPT !.w[uid].length = IF ok THEN Len(lru) ELSE 0,
                          !.w[uid].pc = IF ~ok THEN "release"
                                        ELSE IF Len(lru) > cacheLimit THEN "lrange"
                                        ELSE "release",
                          !.w[uid].put = IF ~ok THEN "failed"
                                         ELSE IF Len(lru) > cacheLimit THEN "none"
                                         ELSE "ok"]
    /\ UNCHANGED <<db, saved, cache, lru, op>>
    /\ UNCHANGED pipeVars

\* LRANGE from cacheLimit to length-1, storage.go:486-489
LRangeStep(uid, ok) ==
    /\ At(uid, "lrange")
    /\ MayFail(ok)
    /\ faults' = Count(ok)
    /\ pre' = [pre EXCEPT !.w[uid].olds = IF ok THEN LRange(lru, cacheLimit,
                                                            pre.w[uid].length - 1)
                                          ELSE <<>>,
                          !.w[uid].pc = IF ok THEN "del" ELSE "release",
                          !.w[uid].put = IF ok THEN "none" ELSE "failed"]
    /\ UNCHANGED <<db, saved, cache, lru, op>>
    /\ UNCHANGED pipeVars

\* DEL olds..., storage.go:490-492; Redis refuses a DEL without keys
DelStep(uid, ok) ==
    /\ At(uid, "del")
    /\ MayFail(ok)
    /\ faults' = Count(ok)
    /\ LET done == ok /\ pre.w[uid].olds # <<>>
       IN  /\ cache' = IF done THEN Del(cache, pre.w[uid].olds) ELSE cache
           /\ pre' = [pre EXCEPT !.w[uid].pc = IF done THEN "ltrim" ELSE "release",
                                 !.w[uid].put = IF done THEN "none" ELSE "failed"]
    /\ UNCHANGED <<db, saved, lru, op>>
    /\ UNCHANGED pipeVars

\* LTRIM 0 cacheLimit-1, storage.go:493-497
LTrimStep(uid, ok) ==
    /\ At(uid, "ltrim")
    /\ MayFail(ok)
    /\ faults' = Count(ok)
    /\ lru' = IF ok THEN LTrim(lru, 0, cacheLimit - 1) ELSE lru
    /\ pre' = [pre EXCEPT !.w[uid].pc = "release",
                          !.w[uid].put = IF ok THEN "ok" ELSE "failed"]
    /\ UNCHANGED <<db, saved, cache, op>>
    /\ UNCHANGED pipeVars

\* a worker that signals the wait group and keeps its slot
ReleaseKeepsSlot(uid) ==
    /\ At(uid, "release")
    /\ pre' = [pre EXCEPT !.w[uid].pc = "done", !.wg = @ - 1]
    /\ UNCHANGED <<db, saved, cache, lru, op, faults>>
    /\ UNCHANGED pipeVars

\* the deferred function: give the slot back, wg.Done(), storage.go:164-167
Release(uid) ==
    /\ At(uid, "release")
    /\ pre' = [pre EXCEPT !.w[uid].pc = "done", !.sem = @ - 1, !.wg = @ - 1]
    /\ UNCHANGED <<db, saved, cache, lru, op, faults>>
    /\ UNCHANGED pipeVars

\* the steps of the goroutine of uid
Worker(uid) ==
    \/ \E f \in FetchFaults : Fetch(uid, f)
    \/ \E ok \in BOOLEAN : Set(uid, ok)
    \/ \E ok \in BOOLEAN : LPush(uid, ok)
    \/ \E ok \in BOOLEAN : LLen(uid, ok)
    \/ \E ok \in BOOLEAN : LRangeStep(uid, ok)
    \/ \E ok \in BOOLEAN : DelStep(uid, ok)
    \/ \E ok \in BOOLEAN : LTrimStep(uid, ok)
    \/ Release(uid)

PreloadNext ==
    \/ \E ok \in BOOLEAN : PreloadCache(ok)
    \/ Dispatch
    \/ EndOfLoop
    \/ Wait
    \/ \E uid \in Keys : Worker(uid)

\* Two GetOrder calls that missed the cache, each in the goroutine of its
\* HTTP request: both go through getFromDB and the commands of saveToRedis,
\* storage.go:326-331, and their commands interleave in Redis.
Readers == {TestOrder.OrderUID, Order2.OrderUID}

\* the cache after one earlier read of a third order
OneCached ==
    saveToRedis(EmptyCache, <<>>, getFromDB(SavedDB, Order3.OrderUID, NoFault).order, NoFault)

RaceInit ==
    /\ db = SavedDB
    /\ saved = Orders
    /\ \E r \in {Redis(EmptyCache, <<>>), Redis(OneCached.cache, OneCached.lru)} :
          /\ cache = r.cache
          /\ lru = r.lru
    /\ op = NoOp
    /\ faults = 0
    /\ pre = [pc |-> "serving", uids |-> <<>>, next |-> 1,
              sem |-> Cardinality(Readers), wg |-> Cardinality(Readers),
              w |-> [u \in Readers |-> NewWorker], crashed |-> FALSE]
    /\ PipeIdle

\* the steps of one of the two calls
Reader(uid) ==
    \/ Fetch(uid, NoFault)
    \/ \E ok \in BOOLEAN : Set(uid, ok)
    \/ \E ok \in BOOLEAN : LPush(uid, ok)
    \/ \E ok \in BOOLEAN : LLen(uid, ok)
    \/ \E ok \in BOOLEAN : LRangeStep(uid, ok)
    \/ \E ok \in BOOLEAN : DelStep(uid, ok)
    \/ \E ok \in BOOLEAN : LTrimStep(uid, ok)
    \/ Release(uid)

RaceNext == \E uid \in Readers : Reader(uid)

----------------------------------------------------------------------------
(* New, storage.go:74-105: op holds the position and the result of New     *)

\* the number of pings waitForDB is given, storage.go:81
attempts == 5

StartNew == [name |-> "New", pc |-> "waitForDB", i |-> 0, err |-> nil]

\* storage.New is called on a stopped service, cmd/main.go:21-24
NewInit ==
    /\ db \in PreloadStores
    /\ saved = {}
    /\ \E r \in PriorRedis :
          /\ r.lru # <<>> => db = SavedDB
          /\ cache = r.cache
          /\ lru = r.lru
    /\ op = StartNew
    /\ faults = 0
    /\ pre = NoPreload
    /\ PipeIdle

\* one pass of the loop of waitForDB, storage.go:111-118, and the return of
\* its error by New, storage.go:81-83
WaitForDB(ok) ==
    /\ op.name = "New"
    /\ op.pc = "waitForDB"
    /\ op.i < attempts
    /\ op' = IF ok THEN [op EXCEPT !.pc = "ping"]
             ELSE IF op.i + 1 < attempts THEN [op EXCEPT !.i = @ + 1]
             ELSE [op EXCEPT !.i = @ + 1, !.pc = "failed",
                             !.err = Wrapf("storage.connection",
                                           Errorf("database is not reachable after 5 attempts"))]
    /\ UNCHANGED <<db, saved, cache, lru, faults, pre>>
    /\ UNCHANGED pipeVars

\* the db.Ping() of New after waitForDB returned nil, storage.go:84-86
DBPing(ok) ==
    /\ op.name = "New"
    /\ op.pc = "ping"
    /\ op' = IF ok THEN [op EXCEPT !.pc = "initRedis"]
             ELSE [op EXCEPT !.pc = "failed", !.err = Wrapf("storage.connection", DriverError)]
    /\ UNCHANGED <<db, saved, cache, lru, faults, pre>>
    /\ UNCHANGED pipeVars

\* initRedis: the ping of the Redis client, storage.go:32-44 and 88-91
InitRedis(ok) ==
    /\ op.name = "New"
    /\ op.pc = "initRedis"
    /\ op' = IF ok THEN [op EXCEPT !.pc = "migrations"]
             ELSE [op EXCEPT !.pc = "failed",
                             !.err = Wrapf("storage.connection (initRedis)",
                                           Errorf("failed to connect to Redis: "
                                                  \o RedisError.msg))]
    /\ UNCHANGED <<db, saved, cache, lru, faults, pre>>
    /\ UNCHANGED pipeVars

\* runMigrations, storage.go:46-72 and 97-99: the tables exist afterwards
RunMigrations(ok) ==
    /\ op.name = "New"
    /\ op.pc = "migrations"
    /\ op' = IF ok THEN [op EXCEPT !.pc = "preloadCache"]
             ELSE [op EXCEPT !.pc = "failed",
                             !.err = Wrapf("failed to make migrations",
                                           Wrapf("storage.migrations", DriverError))]
    /\ UNCHANGED <<db, saved, cache, lru, faults, pre>>
    /\ UNCHANGED pipeVars

\* s.preloadCache() inside New, storage.go:101
NewPreload ==
    /\ op.name = "New"
    /\ op.pc = "preloadCache"
    /\ PreloadNext

\* preloadCache is back: its error is logged and New returns s, nil,
\* storage.go:101-104
NewReturn ==
    /\ op.name = "New"
    /\ op.pc = "preloadCache"
    /\ ~pre.crashed
    /\ pre.pc \in {"failed", "returned"}
    /\ op' = [op EXCEPT !.pc = "returned", !.err = nil]
    /\ UNCHANGED <<db, saved, cache, lru, faults, pre>>
    /\ UNCHANGED pipeVars

NewNext ==
    \/ \E ok \in BOOLEAN : WaitForDB(ok)
    \/ \E ok \in BOOLEAN : DBPing(ok)
    \/ \E ok \in BOOLEAN : InitRedis(ok)
    \/ \E ok \in BOOLEAN : RunMigrations(ok)
    \/ NewPreload
    \/ NewReturn

----------------------------------------------------------------------------
(* Ingestion pipeline, kafka/consumer.go                                   *)

\* consumer.go:23
maxRetryAttempt == 5

\* consumer.go:24-25, in microseconds
initialBackoff == 100000

maxBackoff == 5000000

\* messages one run of the model consumes
MaxMsgs == 2

\* failed polls in a row the model sees
MaxReadErrs == 1

\* rand.Float64() in thousandths: the least and the greatest value
RandPermille == {0, 999}

RECURSIVE Pow2(_)
Pow2(n) == IF n = 0 THEN 1 ELSE 2 * Pow2(n - 1)

\* a backoff whose base before the first retry is initialBackoff itself
calculateBackoffFromInitial(a, r) ==
    LET raw == initialBackoff * Pow2(a - 1)
        backoff == IF raw > maxBackoff THEN maxBackoff ELSE raw
        jitter == ((backoff \div 5) * r) \div 1000
    IN  backoff - (backoff \div 10) + jitter

\* calculateBackoff(attempt) with rand.Float64() = r / 1000, in microseconds
calculateBackoff(a, r) ==
    LET raw == initialBackoff * Pow2(a)
        backoff == IF raw > maxBackoff THEN maxBackoff ELSE raw
        jitter == ((backoff \div 5) * r) \div 1000
    IN  backoff - (backoff \div 10) + jitter

\* a queue message carrying the JSON of an order, keyed by the order's key
OrderMsg(o) == [Key |-> o.OrderUID, Value |-> Marshal(o), Offset |-> 0]

\* a message whose value is not JSON
GarbageMsg == [Key |-> "order-0009", Value |-> [valid |-> FALSE, doc |-> NoOrder], Offset |-> 0]

Messages ==
    {OrderMsg(TestOrder), OrderMsg(Order2), OrderMsg(BadKeyOrder),
     OrderMsg(BadPaymentOrder), GarbageMsg}

\* the failures of SaveOrder the pipeline is run against: none, the first
\* insert, the commit
PipeFaults == {NoFault, Fault("order"), Fault("commit")}

\* a processMessage that reports an undecodable value as a validation error
processMessageRejectsGarbage(d, m, f) ==
    LET u == Unmarshal(m.Value)
        v == Validate(u.order)
    IN  IF u.err # nil
            THEN [db |-> d, err |-> ValidationError("json", u.err.msg), saved |-> FALSE]
        ELSE IF v # nil
            THEN [db |-> d, err |-> Wrapf("invalid order data", v), saved |-> FALSE]
        ELSE LET s == SaveOrder(d, u.order, f)
             IN  IF s.err # nil
                     THEN [db |-> s.db, err |-> Wrapf("failed to save order", s.err),
                           saved |-> TRUE]
                     ELSE [db |-> s.db, err |-> nil, saved |-> TRUE]

\* processMessage returns [db, err, saved]: saved tells whether SaveOrder ran
processMessage(d, m, f) ==
    LET u == Unmarshal(m.Value)
        v == Validate(u.order)
    IN  IF u.err # nil
            THEN [db |-> d, err |-> Wrapf("failed to unmarshal order", u.err), saved |-> FALSE]
        ELSE IF v # nil
            THEN [db |-> d, err |-> Wrapf("invalid order data", v), saved |-> FALSE]
        ELSE LET s == SaveOrder(d, u.order, f)
             IN  IF s.err # nil
                     THEN [db |-> s.db, err |-> Wrapf("failed to save order", s.err),
                           saved |-> TRUE]
                     ELSE [db |-> s.db, err |-> nil, saved |-> TRUE]

\* the SaveOrder failures that can show for m: none unless SaveOrder is reached
FaultsFor(m) ==
    IF Unmarshal(m.Value).err = nil /\ Validate(Unmarshal(m.Value).order) = nil
        THEN PipeFaults ELSE {NoFault}

\* the test of consumer.go:101: is err a *models.ValidationError
IsValidationError(e) == e.type = "*models.ValidationError"

\* a consumer that polls the next message while the current one is waiting
\* for its retry
ReadMessageWhileSleeping(m) ==
    /\ pc \in {"read", "backoff"}
    /\ nread < MaxMsgs
    /\ msg' = [m EXCEPT !.Offset = nread]
    /\ nread' = nread + 1
    /\ attempt' = 0
    /\ lastErr' = nil
    /\ ret' = nil
    /\ stat' = NoStat
    /\ pc' = "process"
    /\ readErrs' = 0
    /\ UNCHANGED dlq
    /\ UNCHANGED storeVars

\* reader.ReadMessage returns the next message of the topic
ReadMessage(m) ==
    /\ pc = "read"
    /\ nread < MaxMsgs
    /\ msg' = [m EXCEPT !.Offset = nread]
    /\ nread' = nread + 1
    /\ attempt' = 0
    /\ lastErr' = nil
    /\ ret' = nil
    /\ stat' = NoStat
    /\ pc' = "process"
    /\ readErrs' = 0
    /\ UNCHANGED dlq
    /\ UNCHANGED storeVars

\* reader.ReadMessage fails: log and poll again, consumer.go:70-73
ReadMessageFailed ==
    /\ pc = "read"
    /\ readErrs < MaxReadErrs
    /\ readErrs' = readErrs + 1
    /\ UNCHANGED <<pc, msg, attempt, lastErr, ret, stat, dlq, nread>>
    /\ UNCHANGED storeVars

\* a retry sleeps first, consumer.go:85-90
Backoff(r) ==
    /\ pc = "backoff"
    /\ stat' = [stat EXCEPT !.sleeps = @ + 1, !.delay = calculateBackoff(attempt, r)]
    /\ pc' = "process"
    /\ UNCHANGED <<msg, attempt, lastErr, ret, dlq, nread, readErrs>>
    /\ UNCHANGED storeVars

\* a consumer that leaves its loop once the attempts are used up
AfterFailureLeavesLoop(e, a) ==
    IF IsValidationError(e) THEN "dlq"
    ELSE IF a + 1 < maxRetryAttempt THEN "backoff"
    ELSE "exit"

\* a loop that gives up after the first failed attempt
AfterFailureNoRetry(e, a) == "dlq"

\* where the loop goes after a failed attempt a, consumer.go:84 and 101-103
AfterFailure(e, a) ==
    IF IsValidationError(e) THEN "dlq"
    ELSE IF a + 1 < maxRetryAttempt THEN "backoff"
    ELSE "dlq"

\* an attempt whose successful save also puts the order into the cache
ProcessWarmsCache(f) ==
    /\ pc = "process"
    /\ LET r == processMessage(db, msg, f)
           p == saveToRedis(cache, lru, Unmarshal(msg.Value).order, NoFault)
       IN  /\ db' = r.db
           /\ saved' = IF r.saved /\ r.err = nil
                       THEN saved \cup {Unmarshal(msg.Value).order} ELSE saved
           /\ stat' = [stat EXCEPT !.procCalls = @ + 1,
                                   !.saveCalls = IF r.saved THEN @ + 1 ELSE @,
                                   !.saveFails = IF r.saved /\ r.err # nil THEN @ + 1 ELSE @,
                                   !.commits = IF r.saved /\ r.err = nil THEN @ + 1 ELSE @]
           /\ IF r.err = nil
                 THEN /\ ret' = nil
                      /\ pc' = "returned"
                      /\ cache' = p.cache
                      /\ lru' = p.lru
                      /\ UNCHANGED <<attempt, lastErr>>
                 ELSE /\ lastErr' = r.err
                      /\ pc' = IF IsValidationError(r.err) \/ attempt + 1 >= maxRetryAttempt
                               THEN "dlq" ELSE "backoff"
                      /\ attempt' = IF IsValidationError(r.err) THEN attempt ELSE attempt + 1
                      /\ UNCHANGED <<ret, cache, lru>>
    /\ UNCHANGED <<msg, dlq, nread, readErrs>>
    /\ UNCHANGED <<op, faults, pre>>

\* one pass of the loop body from processMessage on, consumer.go:92-103
Process(f) ==
    /\ pc = "process"
    /\ LET r == processMessage(db, msg, f)
       IN  /\ db' = r.db
           /\ saved' = IF r.saved /\ r.err = nil
                       THEN saved \cup {Unmarshal(msg.Value).order} ELSE saved
           /\ stat' = [stat EXCEPT !.procCalls = @ + 1,
                                   !.saveCalls = IF r.saved THEN @ + 1 ELSE @,
                                   !.saveFails = IF r.saved /\ r.err # nil THEN @ + 1 ELSE @,
                                   !.commits = IF r.saved /\ r.err = nil THEN @ + 1 ELSE @]
           /\ IF r.err = nil
                 THEN /\ ret' = nil
                      /\ pc' = "returned"
                      /\ UNCHANGED <<attempt, lastErr>>
                 ELSE /\ lastErr' = r.err
                      /\ pc' = AfterFailure(r.err, attempt)
                      /\ attempt' = IF IsValidationError(r.err) THEN attempt ELSE attempt + 1
                      /\ UNCHANGED ret
    /\ UNCHANGED <<msg, dlq, nread, readErrs>>
    /\ UNCHANGED <<cache, lru, op, faults, pre>>

\* a dead letter that does not carry the message it is about
DLQMessageDropsOriginal(m, e) ==
    [Key |-> m.Key,
     Value |-> [OriginalMessage |-> NoMsg, Error |-> e.msg, Timestamp |-> Now]]

\* a dead letter published without the key of the message
DLQMessageUnkeyed(m, e) ==
    [Key |-> "",
     Value |-> [OriginalMessage |-> m, Error |-> e.msg, Timestamp |-> Now]]

\* a dead-letter value that drops the processing error
DLQMessageNoError(m, e) ==
    [Key |-> m.Key,
     Value |-> [OriginalMessage |-> m, Error |-> "", Timestamp |-> Now]]

\* the value sendToDLQ publishes, consumer.go:129-137
DLQMessage(m, e) ==
    [Key |-> m.Key,
     Value |-> [OriginalMessage |-> m, Error |-> e.msg, Timestamp |-> Now]]

\* sendToDLQ and the return of processWithRetry, consumer.go:106-111
SendToDLQ(ok) ==
    /\ pc = "dlq"
    /\ IF lastErr = nil
          \* processingErr.Error() on a nil error, consumer.go:135
          THEN /\ pc' = "panic"
               /\ UNCHANGED <<dlq, ret, stat>>
       ELSE IF ok
          THEN /\ dlq' = Append(dlq, DLQMessage(msg, lastErr))
               /\ ret' = lastErr
               /\ stat' = [stat EXCEPT !.dlqCalls = @ + 1, !.dlqWritten = @ + 1]
               /\ pc' = "returned"
          ELSE /\ dlq' = dlq
               /\ ret' = Errorf("failed to send to DLQ: kafka write failed (original error: "
                                \o lastErr.msg \o ")")
               /\ stat' = [stat EXCEPT !.dlqCalls = @ + 1]
               /\ pc' = "returned"
    /\ UNCHANGED <<msg, attempt, lastErr, nread, readErrs>>
    /\ UNCHANGED storeVars

\* a ReadMSG that leaves its loop when the dead-letter write failed
ReturnedStopsOnDLQFailure ==
    /\ pc = "returned"
    /\ pc' = IF stat.dlqCalls > stat.dlqWritten THEN "exit" ELSE "read"
    /\ msg' = NoMsg
    /\ attempt' = 0
    /\ lastErr' = nil
    /\ ret' = nil
    /\ stat' = NoStat
    /\ UNCHANGED <<dlq, nread, readErrs>>
    /\ UNCHANGED storeVars

\* back in ReadMSG: log a non-nil result and poll again, consumer.go:75-78;
\* the message and the locals of processWithRetry go out of scope
Returned ==
    /\ pc = "returned"
    /\ pc' = "read"
    /\ msg' = NoMsg
    /\ attempt' = 0
    /\ lastErr' = nil
    /\ ret' = nil
    /\ stat' = NoStat
    /\ UNCHANGED <<dlq, nread, readErrs>>
    /\ UNCHANGED storeVars

\* an attempt, under each failure SaveOrder can meet in it
Attempt ==
    /\ pc = "process"
    /\ \E f \in FaultsFor(msg) : Process(f)

PipeStep ==
    \/ \E m \in Messages : ReadMessage(m)
    \/ \E r \in RandPermille : Backoff(r)
    \/ Attempt
    \/ \E ok \in BOOLEAN : SendToDLQ(ok)
    \/ Returned

PipeNext ==
    \/ PipeStep
    \/ ReadMessageFailed

\* the key the read endpoint is asked for while the consumer runs, and the
\* messages the consumer gets then: the order of that key, an order the
\* validator rejects, and a value that is not JSON
ServeKeys == {TestOrder.OrderUID}

ServeMessages == {OrderMsg(TestOrder), OrderMsg(BadKeyOrder), GarbageMsg}

\* the consumer and the HTTP server's reads side by side, cmd/main.go:46-60
ServeNext ==
    \/ \E m \in ServeMessages : ReadMessage(m)
    \/ Backoff(0)
    \/ Attempt
    \/ \E ok \in BOOLEAN : SendToDLQ(ok)
    \/ Returned
    \/ \E uid \in ServeKeys : GetOrder(uid)

----------------------------------------------------------------------------
(* The validator on its own: Order.Validate applied to one order, as       *)
(* processMessage calls it, consumer.go:163                                *)

\* keys of length 0, 3, 9, 10, 50 and 51
KeyVariants ==
    {"", "bad", "order-001", "order-0001",
     "order-0001-0002-0003-0004-0005-0006-0007-0008-0009",
     "order-0001-0002-0003-0004-0005-0006-0007-0008-0009x"}

\* TestOrder with one field of the order itself changed
OrderVariants ==
    {[TestOrder EXCEPT !.TrackNumber = v] :
        v \in {"wbil12345678", "WBIL123", "WBIL1234", "WBIL1234567890123456",
               "WBIL12345678901234567", "WBIL-2345678", ""}}
    \cup {[TestOrder EXCEPT !.Entry = ""]}
    \cup {[TestOrder EXCEPT !.Locale = v] : v \in {"ru", "de", ""}}
    \cup {[TestOrder EXCEPT !.CustomerID = ""]}
    \cup {[TestOrder EXCEPT !.DeliveryService = ""]}
    \cup {[TestOrder EXCEPT !.Shardkey = ""]}
    \cup {[TestOrder EXCEPT !.SmID = v] : v \in {-1, 0}}
    \cup {[TestOrder EXCEPT !.DateCreated = v] :
            v \in {ZeroTime, AddSeconds(Now, Hour),
                   [sec |-> Now.sec + Hour, nsec |-> 1],
                   [sec |-> Now.sec + Hour + 1, nsec |-> 0]}}
    \cup {[TestOrder EXCEPT !.OofShard = ""]}

\* TestOrder with one field of the delivery changed
DeliveryVariants ==
    {[TestOrder EXCEPT !.Delivery.Name = ""]}
    \cup {[TestOrder EXCEPT !.Delivery.Phone = v] :
            v \in {"1234567890", "+1234", "+12345", "+123456789012345",
                   "+1234567890123456", "+12345a", ""}}
    \cup {[TestOrder EXCEPT !.Delivery.Zip = v] :
            v \in {"1234", "12345678901234567890", "123456789012345678901", ""}}
    \cup {[TestOrder EXCEPT !.Delivery.City = ""]}
    \cup {[TestOrder EXCEPT !.Delivery.Address = ""]}
    \cup {[TestOrder EXCEPT !.Delivery.Region = ""]}
    \cup {[TestOrder EXCEPT !.Delivery.Email = v] :
            v \in {"test.example.com", "test@example", "@example.com",
                   "test@example.c", "a.b+c@d-e.org", ""}}

\* TestOrder with one field of the payment changed
PaymentVariants ==
    {[TestOrder EXCEPT !.Payment.Transaction = ""]}
    \cup {[TestOrder EXCEPT !.Payment.Currency = v] : v \in {"EUR", "RUB", "GBP", "usd", ""}}
    \cup {[TestOrder EXCEPT !.Payment.Provider = v] :
            v \in {"applepay", "googlepay", "paypal", ""}}
    \cup {[TestOrder EXCEPT !.Payment.Amount = v] : v \in {-1, 0, 1}}
    \cup {[TestOrder EXCEPT !.Payment.PaymentDt = v] : v \in {-1, 0, 1}}
    \cup {[TestOrder EXCEPT !.Payment.Bank = ""]}
    \cup {[TestOrder EXCEPT !.Payment.DeliveryCost = v] : v \in {-1, 0}}
    \cup {[TestOrder EXCEPT !.Payment.GoodsTotal = v] : v \in {-1, 0, 1}}
    \cup {[TestOrder EXCEPT !.Payment.CustomFee = v] : v \in {-1, 1}}

\* one field of TestItem changed
ItemVariants ==
    {[TestItem EXCEPT !.ChrtID = v] : v \in {-1, 0}}
    \cup {[TestItem EXCEPT !.TrackNumber = v] : v \in {"wbil12345678", "WBIL123"}}
    \cup {[TestItem EXCEPT !.Price = v] : v \in {-1, 0}}
    \cup {[TestItem EXCEPT !.Rid = ""]}
    \cup {[TestItem EXCEPT !.Name = ""]}
    \cup {[TestItem EXCEPT !.Sale = v] : v \in {-1, 0, 100, 101}}
    \cup {[TestItem EXCEPT !.Size = ""]}
    \cup {[TestItem EXCEPT !.TotalPrice = v] : v \in {-1, 0}}
    \cup {[TestItem EXCEPT !.NmID = v] : v \in {-1, 0}}
    \cup {[TestItem EXCEPT !.Brand = ""]}
    \cup {[TestItem EXCEPT !.Status = v] : v \in {-1, 0}}

\* TestOrder with no item, and with a changed item second or alone
ItemsVariants ==
    {[TestOrder EXCEPT !.Items = <<>>]}
    \cup {[TestOrder EXCEPT !.Items = <<TestItem, i>>] : i \in ItemVariants}
    \cup {[TestOrder EXCEPT !.Items = <<i>>] : i \in ItemVariants}

\* the orders handed to Validate: each of the orders above under each key
ValidateInputs ==
    {[o EXCEPT !.OrderUID = k] :
        o \in {TestOrder} \cup OrderVariants \cup DeliveryVariants
                \cup PaymentVariants \cup ItemsVariants,
        k \in KeyVariants}

\* an order has been decoded and is about to be validated
ValidateInit ==
    /\ \E o \in ValidateInputs : op = [name |-> "Unmarshal", order |-> o]
    /\ db = EmptyDB
    /\ saved = {}
    /\ cache = EmptyCache
    /\ lru = <<>>
    /\ faults = 0
    /\ pre = NoPreload
    /\ PipeIdle

\* order.Validate(), consumer.go:163
ValidateOrder ==
    /\ op.name = "Unmarshal"
    /\ op' = [name |-> "Validate", order |-> op.order, err |-> Validate(op.order)]
    /\ UNCHANGED <<db, saved, cache, lru, faults, pre>>
    /\ UNCHANGED pipeVars

ValidateNext == ValidateOrder

----------------------------------------------------------------------------
(* Specifications                                                          *)

\* the durable store on its own: saves and loads
Spec == StoreInit /\ [][StoreNext]_vars

\* the cache-aside layer over a populated store
CacheSpec == CacheInit /\ [][CacheNext]_vars

\* a populated store read while it is cleared table by table
CleanupSpec == CacheInit /\ [][CleanupNext]_vars

\* start-up: the preload over what PostgreSQL and Redis hold
PreloadSpec == PreloadInit /\ [][PreloadNext]_vars

\* the preload when the goroutines keep being scheduled
PreloadFairSpec == PreloadSpec /\ WF_vars(PreloadNext)

\* the ingestion pipeline over an empty store
PipeSpec == StoreInit /\ [][PipeNext]_vars

\* the pipeline when the consumer goroutine keeps being scheduled
PipeFairSpec == PipeSpec /\ WF_vars(PipeStep)

\* the pipeline and the read endpoint over an empty store and an empty cache
ServeSpec == StoreInit /\ [][ServeNext]_vars

\* puts in sequence on a cache that starts empty
PutSpec == CacheInit /\ [][PutNext]_vars

\* two puts side by side
RaceSpec == RaceInit /\ [][RaceNext]_vars

\* start-up: New from its first ping to its return
NewSpec == NewInit /\ [][NewNext]_vars

\* the validator applied to one order
ValidateSpec == ValidateInit /\ [][ValidateNext]_vars

----------------------------------------------------------------------------
(* Properties of the ingestion pipeline                                    *)

Decodes(m) == Unmarshal(m.Value).err = nil

FailsValidator(m) == Decodes(m) /\ Validate(Unmarshal(m.Value).order) # nil

ValidMsg(m) == Decodes(m) /\ Validate(Unmarshal(m.Value).order) = nil

\* the dead-letter messages written for m (offsets tell messages apart)
DeadLetters(m) == {i \in 1..Len(dlq) : dlq[i].Value.OriginalMessage = m}

\* C1: when processWithRetry has returned for a message whose order fails
\* the validator, processMessage ran exactly once, nothing was slept and
\* sendToDLQ was called.
C1_InvalidNotRetried ==
    (pc = "returned" /\ FailsValidator(msg)) =>
        /\ stat.procCalls = 1
        /\ stat.sleeps = 0
        /\ stat.delay = 0
        /\ stat.dlqCalls = 1

\* C2: a valid message is not dead-lettered while fewer than 5 of its saves
\* have failed, and when a save succeeds after k < 5 failures the order was
\* committed exactly once, is in the tables once, and nil is returned.
C2_RetriedSavePersistsOnce ==
    ValidMsg(msg) =>
        /\ stat.saveFails < 5 => stat.dlqCalls = 0
        /\ stat.commits <= 1
        /\ (pc = "returned" /\ stat.saveFails < 5) =>
              /\ stat.commits = 1
              /\ ret = nil
              /\ DeadLetters(msg) = {}
              /\ Unmarshal(msg.Value).order \in saved
              /\ Cardinality({r \in db.orders : r.order_uid = msg.Key}) = 1
              /\ Len(ItemsOf(db.items, msg.Key)) = Len(Unmarshal(msg.Value).order.Items)

C2_Witness ==
    /\ pc = "returned"
    /\ ValidMsg(msg)
    /\ stat.saveFails = 4
    /\ stat.commits = 1
    /\ ret = nil

\* C3 as stated: a message whose save failed on all 5 attempts has exactly
\* one dead-letter message, whose error field is not empty.
C3_DeadLetteredExactlyOnce ==
    (pc = "returned" /\ stat.saveFails = 5) =>
        /\ Cardinality(DeadLetters(msg)) = 1
        /\ \A i \in DeadLetters(msg) : dlq[i].Value.Error # ""

\* C3 amended: such a message is handed to sendToDLQ exactly once with a
\* non-empty error text; it has exactly one dead-letter message, carrying
\* that text, when the dead-letter write succeeded, and none when the write
\* failed, in which case processWithRetry returns the write's error.
C3_DeadLetteredOnceIfWritten ==
    (pc = "returned" /\ stat.saveFails = 5) =>
        /\ stat.dlqCalls = 1
        /\ lastErr.msg # ""
        /\ Cardinality(DeadLetters(msg)) = stat.dlqWritten
        /\ \A i \in DeadLetters(msg) :
              dlq[i].Value.Error = lastErr.msg /\ dlq[i].Key = msg.Key
        /\ stat.dlqWritten = 1 => ret = lastErr
        /\ stat.dlqWritten = 0 => (ret # nil /\ ret # lastErr)

C3_Witness ==
    /\ pc = "returned"
    /\ stat.saveFails = 5
    /\ stat.dlqWritten = 1
    /\ Cardinality(DeadLetters(msg)) = 1

\* the order of message m is in the durable store
Stored(m) == Decodes(m) /\ Unmarshal(m.Value).order \in saved

\* C34 as stated: no consumed message is lost: when processWithRetry
\* returns on a message, its order is durably stored or a dead-letter
\* message for it has been written, and the result is nil exactly when the
\* order is stored.
C34_NoMessageLost ==
    pc = "returned" =>
        /\ Stored(msg) \/ DeadLetters(msg) # {}
        /\ ret = nil <=> Stored(msg)

\* C34 amended: processWithRetry returns nil exactly when the save of this
\* call committed, and the order is then stored and not dead-lettered;
\* otherwise the message was handed to sendToDLQ once and has a dead-letter
\* message exactly when the dead-letter write succeeded. A message is
\* neither stored nor dead-lettered only when that write failed.
C34_LostOnlyWhenDLQWriteFails ==
    pc = "returned" =>
        /\ ret = nil <=> stat.commits = 1
        /\ ret = nil => (Stored(msg) /\ DeadLetters(msg) = {} /\ stat.dlqCalls = 0)
        /\ ret # nil =>
              /\ stat.dlqCalls = 1
              /\ Cardinality(DeadLetters(msg)) = stat.dlqWritten
        /\ (~Stored(msg) /\ DeadLetters(msg) = {}) => stat.dlqWritten = 0

\* a message that was never stored and has its dead-letter message
C34_Witness ==
    /\ pc = "returned"
    /\ ValidMsg(msg)
    /\ ~Stored(msg)
    /\ ret # nil
    /\ Cardinality(DeadLetters(msg)) = 1

\* the attempts and sleeps of a message whose value does not decode: every
\* attempt but the first follows a sleep, SaveOrder is never reached, and
\* the loop is left after the 5th attempt
GarbageRetried ==
    /\ stat.saveCalls = 0
    /\ lastErr # nil => lastErr.type = "*fmt.wrapError"
    /\ pc = "process" => (stat.sleeps = stat.procCalls /\ stat.procCalls < maxRetryAttempt)
    /\ pc = "backoff" => (stat.sleeps = stat.procCalls - 1 /\ stat.procCalls < maxRetryAttempt)
    /\ pc \in {"dlq", "returned"} =>
          (stat.procCalls = maxRetryAttempt /\ stat.sleeps = maxRetryAttempt - 1)

\* C35 as stated: a message whose value cannot be decoded into an order
\* gets 5 attempts of processMessage with a sleep before each retry, never
\* reaches SaveOrder, and has a dead-letter message when processWithRetry
\* returns.
C35_GarbageRetriedThenDeadLettered ==
    (pc # "read" /\ ~Decodes(msg)) =>
        /\ GarbageRetried
        /\ pc = "returned" => Cardinality(DeadLetters(msg)) = 1

\* C35 amended: such a message gets the 5 attempts and the 4 sleeps, never
\* reaches SaveOrder and is then handed to sendToDLQ once; it has one
\* dead-letter message when the dead-letter write succeeded and none when
\* the write failed, and processWithRetry returns an error either way.
C35_GarbageRetriedThenSentToDLQ ==
    (pc # "read" /\ ~Decodes(msg)) =>
        /\ GarbageRetried
        /\ pc = "returned" =>
              /\ stat.dlqCalls = 1
              /\ Cardinality(DeadLetters(msg)) = stat.dlqWritten
              /\ ret # nil

\* an undecodable message dead-lettered after its 5th attempt
C35_Witness ==
    /\ pc = "returned"
    /\ ~Decodes(msg)
    /\ stat.procCalls = maxRetryAttempt
    /\ stat.sleeps = maxRetryAttempt - 1
    /\ stat.dlqWritten = 1
    /\ Cardinality(DeadLetters(msg)) = 1

\* the rows of key k in a table
RowsOf(t, k) == {r \in t : r.order_uid = k}

\* at most one order row, one delivery row and one payment row per key
OneRowPerKey ==
    \A k \in {r.order_uid : r \in db.orders \cup db.deliveries \cup db.payments} :
        /\ Cardinality(RowsOf(db.orders, k)) <= 1
        /\ Cardinality(RowsOf(db.deliveries, k)) <= 1
        /\ Cardinality(RowsOf(db.payments, k)) <= 1

\* the message in hand was delivered again after its order was stored
Redelivered == pc # "read" /\ Stored(msg) /\ stat.commits = 0

\* a redelivered message has one copy of its order and of its items, and
\* every attempt so far reached SaveOrder and failed there
RedeliveredSaveFails ==
    /\ Cardinality(RowsOf(db.orders, msg.Key)) = 1
    /\ ItemsOf(db.items, msg.Key) = Unmarshal(msg.Value).order.Items
    /\ stat.saveCalls = stat.procCalls
    /\ stat.saveFails = stat.procCalls
    /\ pc \in {"dlq", "returned"} => stat.saveFails = maxRetryAttempt

\* C36 as stated: the store holds at most one order row, one delivery row
\* and one payment row per key; a message redelivered after its order was
\* stored creates no second copy of the order or of its items, its save
\* fails on every attempt, and it has a dead-letter message when
\* processWithRetry returns.
C36_RedeliveryDeadLettered ==
    /\ OneRowPerKey
    /\ Redelivered =>
          /\ RedeliveredSaveFails
          /\ pc = "returned" => Cardinality(DeadLetters(msg)) = 1

\* C36 amended: the same, with the redelivered message handed to sendToDLQ
\* once and dead-lettered when the dead-letter write succeeded; no step
\* taken on a redelivered message changes the tables, and each of its
\* attempts is a failed save.
C36_RedeliverySentToDLQ ==
    /\ [](/\ OneRowPerKey
          /\ Redelivered =>
                /\ RedeliveredSaveFails
                /\ pc = "returned" =>
                      /\ stat.dlqCalls = 1
                      /\ Cardinality(DeadLetters(msg)) = stat.dlqWritten
                      /\ ret # nil)
    /\ [][Redelivered => (db' = db /\ saved' = saved)]_vars
    /\ [][(Redelivered /\ pc = "process") =>
             /\ stat'.saveFails = stat.saveFails + 1
             /\ stat'.commits = 0
             /\ lastErr' # nil]_vars

\* a redelivered message dead-lettered after 5 failed saves, its order
\* still stored
C36_Witness ==
    /\ pc = "returned"
    /\ Redelivered
    /\ stat.saveFails = maxRetryAttempt
    /\ Cardinality(DeadLetters(msg)) = 1
    /\ Cardinality(RowsOf(db.orders, msg.Key)) = 1

\* C4: no message gets more than 5 processing attempts, and whatever became
\* of a message (saved, given up, dead-letter write failed) the consumer
\* gets back to polling.
C4_AlwaysPollsAgain ==
    /\ [](stat.procCalls <= 5)
    /\ (pc # "read") ~> (pc = "read")

\* polling again after a message that was neither saved nor dead-lettered
C4_Witness ==
    /\ pc = "read"
    /\ nread = 1
    /\ saved = {}
    /\ dlq = <<>>

\* C20: a message is polled only when nothing is in flight; all work (the
\* attempts, the sleeps, the dead-lettering) is on the message polled last;
\* processWithRetry returns only with the message saved or handed to
\* sendToDLQ, and only then is the next message polled; the tables and the
\* dead-letter topic change only for the message in flight, so dead letters
\* appear in the order their messages were consumed.
C20_OneMessageAtATime ==
    /\ [](pc = "read" => (msg = NoMsg /\ stat = NoStat /\ attempt = 0))
    /\ [](pc # "read" => msg.Offset = nread - 1)
    /\ [](pc = "returned" =>
             \/ ret = nil /\ stat.commits = 1 /\ stat.dlqCalls = 0
             \/ ret # nil /\ stat.commits = 0 /\ stat.dlqCalls = 1)
    /\ [][nread' # nread =>
             /\ pc = "read" /\ pc' = "process"
             /\ nread' = nread + 1
             /\ msg'.Offset = nread]_vars
    /\ [][(pc # "read" /\ pc' = "read") => pc = "returned"]_vars
    /\ [][(db' # db \/ dlq' # dlq) =>
             /\ pc \in {"process", "dlq"}
             /\ msg' = msg
             /\ nread' = nread]_vars
    /\ [](\A i, j \in 1..Len(dlq) :
             i < j => dlq[i].Value.OriginalMessage.Offset
                         < dlq[j].Value.OriginalMessage.Offset)

\* the first message dead-lettered after its retries, then the second saved
\* after two failed saves
C20_Witness ==
    /\ pc = "returned"
    /\ nread = 2
    /\ msg.Offset = 1
    /\ Len(dlq) = 1
    /\ dlq[1].Value.OriginalMessage.Offset = 0
    /\ stat.saveFails = 2
    /\ stat.sleeps = 2
    /\ stat.commits = 1

\* C23: every message that appears on the dead-letter topic is appended by
\* sendToDLQ for the message in flight: its key is that message's key, its
\* value holds that message, the text of the error of the last
\* processMessage call and a timestamp that is set; the error handed to
\* sendToDLQ is always the one the most recent attempt returned.
C23_DeadLetterCarriesMessage ==
    /\ [][dlq' # dlq =>
             /\ pc = "dlq"
             /\ Len(dlq') = Len(dlq) + 1
             /\ SubSeq(dlq', 1, Len(dlq)) = dlq
             /\ LET d == dlq'[Len(dlq')]
                IN  /\ d.Key = msg.Key
                    /\ d.Key # ""
                    /\ d.Value.OriginalMessage = msg
                    /\ lastErr # nil
                    /\ d.Value.Error = lastErr.msg
                    /\ d.Value.Error # ""
                    /\ ~IsZero(d.Value.Timestamp)]_vars
    /\ [][(pc = "process" /\ pc' # "returned") =>
             /\ lastErr' # nil
             /\ \E f \in FaultsFor(msg) : lastErr' = processMessage(db, msg, f).err]_vars
    /\ [][pc # "process" => (lastErr' = lastErr \/ pc' = "read" \/ pc = "read")]_vars

\* the dead letter of a valid message whose saves all failed, the last one
\* at the commit
C23_Witness ==
    /\ pc = "returned"
    /\ Len(dlq) = 1
    /\ ValidMsg(msg)
    /\ dlq[1].Key = msg.Key
    /\ dlq[1].Value.OriginalMessage = msg
    /\ dlq[1].Value.Error = processMessage(db, msg, Fault("commit")).err.msg
    /\ stat.saveFails = maxRetryAttempt

\* C25: the consumer is always polling, processing, sleeping before a
\* retry, dead-lettering or back from processWithRetry: it never panics
\* and ReadMSG never returns; sendToDLQ is only entered with a non-nil
\* processing error; and whatever processWithRetry returned for a message,
\* the next step of ReadMSG is to poll again.
C25_NeverLeavesLoop ==
    /\ [](pc \in {"read", "process", "backoff", "dlq", "returned"})
    /\ [](pc = "dlq" => (lastErr # nil /\ lastErr.msg # ""))
    /\ [][(pc = "returned" /\ pc' # pc) => pc' = "read"]_vars
    /\ [][pc' = "returned" => pc \in {"process", "dlq"}]_vars

\* the consumer polls again after an undecodable message was dead-lettered
\* and the dead-letter write of the next message failed
C25_Witness ==
    /\ pc = "read"
    /\ nread = 2
    /\ saved = {}
    /\ Len(dlq) = 1
    /\ ~Decodes(dlq[1].Value.OriginalMessage)
    /\ dlq[1].Value.OriginalMessage.Offset = 0

\* C38: the delay slept before retry n, n in 1..4, is at least 80% and at
\* most 120% of min(100ms * 2^n, 5s), and a message is slept on at most 4
\* times.
C38_DelayWithinFifthOfBase ==
    /\ [](stat.sleeps <= maxRetryAttempt - 1)
    /\ [][stat'.sleeps = stat.sleeps + 1 =>
             LET n == stat'.sleeps
                 raw == 100000 * Pow2(n)
                 base == IF raw < 5000000 THEN raw ELSE 5000000
             IN  /\ n \in 1..4
                 /\ n = attempt
                 /\ pc = "backoff" /\ pc' = "process"
                 /\ 10 * stat'.delay >= 8 * base
                 /\ 10 * stat'.delay <= 12 * base]_vars

\* the sleep before the 4th retry, at the top of the jitter band
C38_Witness ==
    /\ pc = "process"
    /\ stat.sleeps = 4
    /\ attempt = 4
    /\ stat.procCalls = 4
    /\ stat.delay = calculateBackoff(4, 999)
    /\ stat.delay > 1600000

\* C21: the k-th retry of a message (k = 1 for the first) sleeps a delay
\* whose base is 100ms doubled k - 1 times: the slept delay lies within the
\* jitter band of a tenth around that base, there are fewer sleeps than
\* attempts, and no delay exceeds 5s.
C21_BackoffFrom100ms ==
    [][stat'.sleeps = stat.sleeps + 1 =>
          LET base == initialBackoff * Pow2(stat.sleeps)
          IN  /\ stat'.sleeps < maxRetryAttempt
              /\ 10 * stat'.delay >= 9 * base
              /\ 10 * stat'.delay <= 11 * base
              /\ stat'.delay <= maxBackoff]_vars

----------------------------------------------------------------------------
(* Properties of the durable store                                         *)

\* C5: a SaveOrder call that returns nil has added the order's row, its
\* delivery row, its payment row and its item rows, in order, and nothing
\* else; a call that returns an error has left the four tables as they were.
C5_SaveAllOrNothing ==
    [][op'.name = "SaveOrder" =>
          \/ /\ op'.err = nil
             /\ db'.orders = db.orders \cup {OrderRow(op'.order)}
             /\ db'.deliveries = db.deliveries \cup {DeliveryRow(op'.order)}
             /\ db'.payments = db.payments \cup {PaymentRow(op'.order)}
             /\ db'.items = db.items \o
                   [i \in 1..Len(op'.order.Items) |-> ItemRow(op'.order, op'.order.Items[i])]
             /\ ~HasRow(db.orders, op'.key)
          \/ /\ op'.err # nil
             /\ db' = db]_vars

C5_Witness ==
    /\ op.name = "SaveOrder"
    /\ op.order = TestOrder
    /\ op.err = Wrapf("failed to insert item", DriverError)
    /\ ~HasRow(db.orders, "order-0001")
    /\ ~HasRow(db.deliveries, "order-0001")
    /\ ~HasRow(db.payments, "order-0001")
    /\ ItemsOf(db.items, "order-0001") = <<>>
    /\ HasRow(db.orders, "order-0002")

\* C6: every valid order that was saved is loaded back equal in all fields.
C6_RoundTrip ==
    \A o \in saved :
        Validate(o) = nil =>
            /\ getFromDB(db, o.OrderUID, NoFault).order = o
            /\ getFromDB(db, o.OrderUID, NoFault).err = nil

\* C26: a SaveOrder that meets no failure of the database and whose key
\* already has an order row (an earlier save of that key committed) returns
\* nil, and afterwards the tables hold the rows of its order and no longer
\* those of the earlier save.
C26_LastWriterWins ==
    [][(/\ op'.name = "SaveOrder"
        /\ HasRow(db.orders, op'.key)
        /\ db' = SaveOrder(db, op'.order, NoFault).db
        /\ op'.err = SaveOrder(db, op'.order, NoFault).err) =>
           /\ op'.err = nil
           /\ RowOf(db'.deliveries, op'.key) = DeliveryRow(op'.order)
           /\ ItemsOf(db'.items, op'.key) = op'.order.Items]_vars

\* strings.Contains(s, sub)
Contains(s, sub) ==
    \E i \in 1..(Len(s) - Len(sub) + 1) : SubSeq(s, i, i + Len(sub) - 1) = sub

\* the first child row getFromDB misses for uid ("" when none is missing)
FirstMissing(d, uid) ==
    IF ~HasRow(d.deliveries, uid) THEN "delivery"
    ELSE IF ~HasRow(d.payments, uid) THEN "payment"
    ELSE ""

\* C18: a getFromDB of a key whose order row exists but whose delivery or
\* payment row is missing returns an error and no order; the error is not
\* the not-found error (it does not even contain "not found"), and when no
\* database call failed it is sql.ErrNoRows wrapped with the name of the
\* missing row's query; the transaction is rolled back and the tables are
\* as they were.
C18_MissingChildIsInternalFault ==
    [][(/\ op'.name = "getFromDB"
        /\ HasRow(db.orders, op'.key)
        /\ FirstMissing(db, op'.key) # "") =>
          /\ op'.err # nil
          /\ op'.order = NoOrder
          /\ op'.err # Errorf("order not found")
          /\ ~Contains(op'.err.msg, "not found")
          /\ op'.fault = NoFault =>
                /\ op'.err = Wrapf("failed to get " \o FirstMissing(db, op'.key), ErrNoRows)
                /\ op'.tx = "rolledback"
          /\ op'.tx \in {"rolledback", "none"}
          /\ op'.tx = "none" <=> op'.fault = Fault("begin")
          /\ db' = db]_vars

\* the payment row is missing, the delivery row is not
C18_Witness ==
    /\ op.name = "getFromDB"
    /\ op.fault = NoFault
    /\ HasRow(db.orders, op.key)
    /\ HasRow(db.deliveries, op.key)
    /\ ~HasRow(db.payments, op.key)
    /\ op.err = Wrapf("failed to get payment", ErrNoRows)
    /\ op.tx = "rolledback"

----------------------------------------------------------------------------
(* Properties of the preload                                               *)

\* the keys preloadCache selects
Selected == MostRecent(db.orders, cacheLimit)

\* C13: no failed fetch or populate crashes the process; a worker whose
\* fetch failed issues no cache command; and when batchPreload has
\* returned, every selected key had its worker, and every worker whose own
\* fetch and commands did not fail has populated its key.
C13_FailuresAreSkipped ==
    /\ ~pre.crashed
    /\ \A u \in DOMAIN pre.w :
          pre.w[u].err # nil => pre.w[u].pc \in {"set", "release", "done"}
    /\ pre.pc = "returned" =>
          \A i \in 1..Len(pre.uids) :
              /\ pre.uids[i] \in DOMAIN pre.w
              /\ pre.w[pre.uids[i]].pc = "done"
              /\ (pre.w[pre.uids[i]].err = nil /\ pre.w[pre.uids[i]].put # "failed")
                    => pre.w[pre.uids[i]].put = "ok"

\* C14: the goroutines started and not finished are never more than size,
\* and each of them holds one slot of the semaphore.
C14_WorkersBounded ==
    /\ Cardinality(Running) <= size
    /\ pre.sem = Cardinality(Running)
    /\ pre.wg = Cardinality(Running)

\* every slot taken by a worker in the middle of its put while a key is
\* still waiting to be dispatched
C14_Witness ==
    /\ pre.pc = "dispatch"
    /\ pre.next <= Len(pre.uids)
    /\ Cardinality(Running) = size
    /\ \E u \in Running : pre.w[u].pc = "llen"

\* C15: when batchPreload has returned every selected key was dispatched,
\* every worker has finished and no slot is held; and once started,
\* batchPreload does return unless a worker's panic ends the process.
C15_JoinsAllWorkers ==
    /\ [](pre.pc = "returned" =>
             /\ Running = {}
             /\ pre.sem = 0
             /\ pre.wg = 0
             /\ DOMAIN pre.w = {pre.uids[i] : i \in 1..Len(pre.uids)})
    /\ (pre.pc \in {"dispatch", "wait"}) ~> (pre.pc = "returned" \/ pre.crashed)

\* returned after two workers, one of which failed at a Redis command
C15_Witness ==
    /\ pre.pc = "returned"
    /\ Cardinality(DOMAIN pre.w) > size
    /\ \A u \in DOMAIN pre.w : pre.w[u].pc = "done"
    /\ \E u \in DOMAIN pre.w : pre.w[u].put = "failed"
    /\ \E u \in DOMAIN pre.w : pre.w[u].put = "ok"

\* C16: when preloadCache has returned nil and no call failed, each of
\* the cacheLimit most recently created orders has an entry in the cache.
C16_RecentAreCached ==
    (pre.pc = "returned" /\ faults = 0) =>
        \A i \in 1..Len(Selected) : HeldDecodable(cache, Selected[i])

\* the keys of a sequence
Range(q) == {q[i] : i \in 1..Len(q)}

\* the keys of the recency list are the keys that have a cache entry
ListMatchesCache == Range(lru) = DOMAIN cache

\* C30: after every put of a sequence of puts that all succeed, made one
\* after the other on a cache that starts empty and loses no entry to
\* expiry, the list and the cache agree, also when a key is put again.
C30_ListMatchesCacheAfterPuts ==
    faults = 0 => ListMatchesCache

\* C37: a put that does not push the recency list past cacheLimit and
\* returns nil has sent exactly three commands, in this order: SET of the
\* order's JSON under its key with a time-to-live of 72 hours, LPUSH of the
\* key on the recency list, LLEN of the list. It leaves every other entry
\* alone and the list is the old one with the key in front. A put below
\* the limit that fails has sent a prefix of the three, so no put below the
\* limit deletes an entry or trims the list.
C37_ThreeCommandsBelowLimit ==
    [][(op'.name = "saveToRedis" /\ Len(lru) + 1 <= cacheLimit) =>
          LET c == op'.cmds
          IN  /\ Len(c) <= 3
              /\ \A i \in 1..Len(c) : c[i].cmd = <<"SET", "LPUSH", "LLEN">>[i]
              /\ \A k \in DOMAIN cache : k \in DOMAIN cache' /\ (k # op'.key => cache'[k] = cache[k])
              /\ lru' \in {lru, <<op'.key>> \o lru}
              /\ op'.evicted = <<>>
              /\ op'.err = nil =>
                    /\ Len(c) = 3
                    /\ c[1].key = op'.key
                    /\ c[1].value = Marshal(getFromDB(db, op'.key, NoFault).order)
                    /\ c[1].ttl = 72 * 3600
                    /\ c[2].key = "recently used" /\ c[2].member = op'.key
                    /\ c[3].key = "recently used"
                    /\ cache'[op'.key] = c[1].value
                    /\ DOMAIN cache' = DOMAIN cache \cup {op'.key}
                    /\ lru' = <<op'.key>> \o lru]_vars

\* a put of a second key into a cache of limit cacheLimit that held one
C37_Witness ==
    /\ op.name = "saveToRedis"
    /\ op.err = nil
    /\ Len(op.cmds) = 3
    /\ Len(lru) = cacheLimit
    /\ lru[1] = op.key
    /\ op.key \in DOMAIN cache
    /\ op.evicted = <<>>

\* C39: at start-up only the connectivity of the stores is fatal. New
\* returns an error only when PostgreSQL answered none of its pings, Redis
\* did not answer its ping or the migrations failed, and then before any
\* preload; a failure of the preload query or of a preload item neither
\* makes New fail nor ends the process; and New returns only when the
\* preload is over and no worker is left running.
C39_OnlyConnectivityIsFatal ==
    op.name = "New" =>
        /\ ~pre.crashed
        /\ op.pc = "failed" =>
              /\ op.err # nil
              /\ pre = NoPreload
              /\ \/ Contains(op.err.msg, "database is not reachable after 5 attempts")
                 \/ Contains(op.err.msg, DriverError.msg)
                 \/ Contains(op.err.msg, "failed to connect to Redis")
        /\ op.pc = "returned" =>
              /\ op.err = nil
              /\ pre.pc \in {"failed", "returned"}
              /\ Running = {}
        /\ (pre.pc = "failed" \/ \E u \in DOMAIN pre.w : pre.w[u].err # nil \/ pre.w[u].put = "failed")
              => op.pc \in {"preloadCache", "returned"}

\* C33: a put that returns an error leaves every cache entry and the
\* recency list as they were before the call; so it leaves no entry without
\* a list record, no list record without an entry and no list longer than
\* cacheLimit where there was none before.
C33_FailedPutChangesNothing ==
    [][(op'.name = "saveToRedis" /\ op'.err # nil /\ faults' = faults + 1) =>
          /\ cache' = cache
          /\ lru' = lru
          /\ ListMatchesCache => ListMatchesCache'
          /\ Len(lru) <= cacheLimit => Len(lru') <= cacheLimit]_vars

\* C32: when the puts that ran side by side are all over and no Redis
\* command failed, the list holds at most cacheLimit keys, every cached key
\* is still in the list (what was dropped from the list was deleted), and
\* every put returned nil.
C32_ConcurrentPutsSucceed ==
    (faults = 0 /\ DOMAIN pre.w # {} /\ \A u \in DOMAIN pre.w : pre.w[u].pc = "done") =>
        /\ Len(lru) <= cacheLimit
        /\ DOMAIN cache \subseteq Range(lru)
        /\ \A u \in DOMAIN pre.w : pre.w[u].put = "ok"

\* C31: no key occurs twice in the recency list: the length of the list is
\* the number of distinct keys in it.
C31_NoDuplicateKeys ==
    Len(lru) = Cardinality(Range(lru))

----------------------------------------------------------------------------
(* Properties of the cache layer                                           *)

\* C7: right after a GetOrder whose saveToRedis returned nil, the cache
\* answers a get of the same key with that order.
C7_PutThenGetHits ==
    (op.name = "GetOrder" /\ op.put = "ok") =>
        getFromCache(cache, op.key, NoFault) = [order |-> op.loaded, err |-> nil]

\* C8: the recency list is never longer than cacheLimit once a put is over,
\* and a key the put trimmed off the list has no cache entry.
C8_ListBounded ==
    /\ Len(lru) <= cacheLimit
    /\ op.name = "GetOrder" => \A i \in 1..Len(op.evicted) : op.evicted[i] \notin DOMAIN cache

\* C9: the cache never holds more than cacheLimit order entries.
C9_CacheBounded == Cardinality(DOMAIN cache) <= cacheLimit

\* C10: a GetOrder whose durable load succeeded returns the loaded order.
C10_LoadedIsReturned ==
    (op.name = "GetOrder" /\ ~op.hit /\ op.loaded # NoOrder) =>
        (op.err = nil /\ op.order = op.loaded)

\* the error of getFromCache when the GET command itself fails
GetFailed == Wrapf("redis get error", RedisError)

\* C11 as stated: whenever the cache holds a decodable entry for the key,
\* GetOrder returns that entry, does not read the relational store and
\* writes neither the cache nor the recency list.
C11_HeldEntryShortCircuits ==
    [][(op'.name = "GetOrder" /\ HeldDecodable(cache, op'.key)) =>
          /\ op'.hit
          /\ op'.err = nil
          /\ op'.order = Unmarshal(cache[op'.key]).order
          /\ ~op'.dbread
          /\ cache' = cache
          /\ lru' = lru]_vars

\* C11 amended: when the cache holds a decodable entry for the key and the
\* GET command succeeds (a cache hit), GetOrder returns that entry, does
\* not read the relational store and leaves the store, the cache and the
\* recency list as they were; when the GET command fails, GetOrder reads
\* the relational store although the entry is held.
C11_HitShortCircuits ==
    [][op'.name = "GetOrder" =>
          /\ (HeldDecodable(cache, op'.key) /\ op'.cacheErr # GetFailed) =>
                /\ op'.hit
                /\ op'.err = nil
                /\ op'.order = Unmarshal(cache[op'.key]).order
                /\ ~op'.dbread
                /\ op'.put = "none"
                /\ cache' = cache
                /\ lru' = lru
                /\ db' = db
          /\ (HeldDecodable(cache, op'.key) /\ op'.cacheErr = GetFailed) =>
                (~op'.hit /\ op'.dbread)]_vars

C11_Witness ==
    /\ op.name = "GetOrder"
    /\ op.hit
    /\ op.key = "order-0001"
    /\ op.order.OrderUID = "order-0001"
    /\ ~op.dbread
    /\ Len(lru) = cacheLimit

\* C12: a GetOrder that did not hit the cache (miss, GET error or entry
\* that does not decode) reads the relational store, and when that load
\* succeeded the next GetOrder of the same key is a cache hit.
C12_MissRepopulates ==
    [][/\ (op'.name = "GetOrder" /\ ~op'.hit) => op'.dbread
       /\ (/\ op.name = "GetOrder" /\ ~op.hit /\ op.loaded # NoOrder
           /\ op'.name = "GetOrder" /\ op'.key = op.key
           /\ op'.cacheErr # GetFailed) => op'.hit]_vars

\* what GetOrder returns for an order getFromDB did not find
NotFound == Errorf("error of getting order from DB: order not found")

\* what GetOrder returns when the database did not answer the order query
NoAnswer ==
    {Errorf("error of getting order from DB: " \o Wrapf(m, DriverError).msg) :
        m \in {"failed to begin transaction", "failed to get order"}}

\* C17: a GetOrder of a key that has no order row and no cache entry
\* returns no order and an error, the not-found error whenever the
\* database answered the query; it reads the store once, does not put, and
\* leaves the cache, the recency list and the tables as they were.
C17_AbsentIsNotFound ==
    [][(/\ op'.name = "GetOrder"
        /\ ~HasRow(db.orders, op'.key)
        /\ op'.key \notin DOMAIN cache) =>
          /\ op'.order = NoOrder
          /\ op'.err \in {NotFound} \cup NoAnswer
          /\ faults' - faults = (IF op'.cacheErr = GetFailed THEN 1 ELSE 0) =>
                op'.err = NotFound
          /\ ~op'.hit
          /\ op'.dbread
          /\ op'.put = "none"
          /\ cache' = cache
          /\ lru' = lru
          /\ db' = db]_vars

C17_Witness ==
    /\ op.name = "GetOrder"
    /\ op.key = "nonexistent"
    /\ op.err = NotFound
    /\ op.cacheErr = Errorf("not found in cache")
    /\ Len(lru) = cacheLimit
    /\ Cardinality(DOMAIN cache) = cacheLimit

\* C19: a cache hit leaves the recency list as it was; the list changes
\* only in a GetOrder that puts, which pushes its key at the front; and
\* what a put evicts is the tail of the list, the keys pushed longest ago,
\* whether or not they were read since.
C19_HitKeepsList ==
    [][/\ (op'.name = "GetOrder" /\ op'.hit) => lru' = lru
       /\ lru' # lru =>
             /\ op'.name = "GetOrder"
             /\ op'.put # "none"
             /\ Head(lru') = op'.key
       /\ (op'.name = "GetOrder" /\ op'.evicted # <<>>) =>
             /\ op'.evicted = SubSeq(<<op'.key>> \o lru, cacheLimit + 1, Len(lru) + 1)
             /\ lru' = SubSeq(<<op'.key>> \o lru, 1, cacheLimit)]_vars

\* a hit on the key at the tail of a full list, which stays at the tail
C19_Witness ==
    /\ op.name = "GetOrder"
    /\ op.hit
    /\ Len(lru) = cacheLimit
    /\ lru[Len(lru)] = op.key
    /\ lru[1] # op.key

C24_FirstReadCaches ==
    /\ pc = "read"
    /\ saved = {TestOrder}
    /\ op.name = "GetOrder"
    /\ op.put = "ok"
    /\ DOMAIN cache = {TestOrder.OrderUID}
    /\ lru = <<TestOrder.OrderUID>>

\* C27: the read endpoint writes one response per request: 200 with the
\* order when GetOrder returned no error, and otherwise one response with
\* an error status and an error body, no 200 and no order body.
C27_OneResponse ==
    op.name = "GetOrder" =>
        /\ Len(op.resp) = 1
        /\ op.err = nil =>
               (op.resp[1].code = 200 /\ op.resp[1].body = [order |-> op.order])
        /\ op.err # nil =>
               /\ op.resp[1].code >= 400
               /\ \E k \in DOMAIN op.resp[1].body : op.resp[1].body[k] = op.err.msg
               /\ \A i \in 1..Len(op.resp) :
                      op.resp[i].code # 200 /\ "order" \notin DOMAIN op.resp[i].body

\* C22: a put that succeeds on a list of length L after the push leaves,
\* when L > cacheLimit, the first cacheLimit keys of the pushed list as the
\* list and the pushed cache without the entries of the keys at positions
\* cacheLimit..L-1, which are the keys it reports evicted (one key when
\* L = cacheLimit + 1); when L <= cacheLimit it evicts nothing.
C22_OverflowTailEvicted ==
    [][(op'.name = "GetOrder" /\ op'.put = "ok") =>
          LET l1 == <<op'.key>> \o lru
              L == Len(l1)
              tail == SubSeq(l1, cacheLimit + 1, L)
              pushed == (DOMAIN cache) \cup {op'.key}
          IN  /\ op'.evicted = tail
              /\ lru' = SubSeq(l1, 1, IF L > cacheLimit THEN cacheLimit ELSE L)
              /\ DOMAIN cache' = pushed \ Range(tail)
              /\ \A k \in DOMAIN cache' :
                     cache'[k] = IF k = op'.key THEN Marshal(op'.loaded) ELSE cache[k]
              /\ L = cacheLimit + 1 =>
                     (Len(op'.evicted) = 1 /\ Len(lru') = cacheLimit)
              /\ L <= cacheLimit => (op'.evicted = <<>> /\ lru' = l1)]_vars

\* a put on a full list evicted the one key at its tail
C22_Witness ==
    /\ op.name = "GetOrder"
    /\ op.put = "ok"
    /\ Len(op.evicted) = 1
    /\ op.evicted[1] # op.key
    /\ op.evicted[1] \notin DOMAIN cache
    /\ op.key \in DOMAIN cache
    /\ Len(lru) = cacheLimit

\* a put on a list a failed put had left one key too long: two keys evicted
C22_WitnessLonger ==
    /\ op.name = "GetOrder"
    /\ op.put = "ok"
    /\ Len(op.evicted) = 2
    /\ Len(lru) = cacheLimit

----------------------------------------------------------------------------
(* Properties of the validator                                             *)

\* C29: an order whose key is empty or shorter than 10 or longer than 50
\* fails on field order_uid whatever its other fields are, with the
\* validator's own error value; an order whose key has 10 to 50 characters
\* never fails on field order_uid.
C29_KeyCheckedFirst ==
    op.name = "Validate" =>
        LET n == Len(op.order.OrderUID)
        IN  /\ (n < 10 \/ n > 50) =>
                   (op.err.type = "*models.ValidationError" /\ op.err.field = "order_uid")
            /\ (n >= 10 /\ n <= 50) => op.err.field # "order_uid"

\* a key of 9 characters on an order that also breaks a payment rule
C29_Witness ==
    /\ op.name = "Validate"
    /\ Len(op.order.OrderUID) = 9
    /\ op.order.Payment.Currency = "GBP"
    /\ op.err.field = "order_uid"

\* the rules the specification lists for the order, its delivery, its
\* payment and its items
ListedDelivery(d) ==
    /\ d.Name # "" /\ d.City # "" /\ d.Address # "" /\ d.Region # ""
    /\ phoneRegex(d.Phone)
    /\ emailRegex(d.Email)
    /\ Len(d.Zip) >= 5 /\ Len(d.Zip) <= 20

ListedPayment(p) ==
    /\ p.Currency \in {"USD", "EUR", "RUB"}
    /\ p.Provider \in {"wbpay", "applepay", "googlepay"}
    /\ p.Amount > 0
    /\ p.PaymentDt > 0
    /\ p.Bank # ""
    /\ p.DeliveryCost >= 0
    /\ p.GoodsTotal > 0
    /\ p.CustomFee >= 0

ListedItem(i) ==
    /\ trackNumRegex(i.TrackNumber)
    /\ i.ChrtID > 0 /\ i.NmID > 0
    /\ i.Price > 0 /\ i.TotalPrice > 0
    /\ i.Sale >= 0 /\ i.Sale <= 100
    /\ i.Name # "" /\ i.Size # "" /\ i.Brand # ""
    /\ i.Status >= 0

Listed(o) ==
    /\ o.OrderUID # "" /\ Len(o.OrderUID) >= 10 /\ Len(o.OrderUID) <= 50
    /\ trackNumRegex(o.TrackNumber)
    /\ o.Entry # "" /\ o.CustomerID # "" /\ o.DeliveryService # ""
    /\ o.Shardkey # "" /\ o.OofShard # ""
    /\ ListedDelivery(o.Delivery)
    /\ ListedPayment(o.Payment)
    /\ o.Items # <<>>
    /\ \A n \in 1..Len(o.Items) : ListedItem(o.Items[n])
    /\ o.Locale \in {"en", "ru"}

\* the rules Validate checks beyond the listed ones: the payment's
\* transaction and every item's rid are non-empty, sm_id is not negative,
\* the creation time is set and not more than an hour after now
Unlisted(o) ==
    /\ o.Payment.Transaction # ""
    /\ \A n \in 1..Len(o.Items) : o.Items[n].Rid # ""
    /\ o.SmID >= 0
    /\ ~IsZero(o.DateCreated)
    /\ ~After(o.DateCreated, AddSeconds(Now, Hour))

====
